---- MODULE Spec2Model ----
(***************************************************************************)
(* Streaming metrics (utils/metrics.py) and retrieval evaluation           *)
(* (pipelines/retrieval_eval.py) of transformer_document_embedding.        *)
(*                                                                         *)
(* Tensors are modelled by their shape and their rows.  A 1-D tensor is a  *)
(* sequence of numbers.  A tensor that may be 1-D or 2-D (the view buffers *)
(* of WindowedCCAMetric) is a record [ndim, ncols, rows].  Exact fractions *)
(* are pairs <<numerator, denominator>> with a positive denominator.       *)
(***************************************************************************)
EXTENDS Integers, Sequences, FiniteSets, TLC

\* ------------------------------------------------------------------ bounds
NumWorkers == 2
MaxWindow == 2
MaxBatch == 3
MaxRows == 3
MaxMerges == 1
MaxComponents == 2
MaxUpdates == 3
MaxLoss == 2
NumDocs == 3
MaxQueries == 2
MaxLossBatch == 2
MaxCalls == 2
MaxSamples == 3
MaxDim == 3
MaxEntry == 2
MaxEvalEvery == 3
MaxEpochEnds == 4
MaxEpochs == 5
MaxSplitRows == 3

Workers == 1..NumWorkers

\* ------------------------------------------------------- sequence helpers
RECURSIVE SumSeq(_)
SumSeq(s) == IF s = <<>> THEN 0 ELSE Head(s) + SumSeq(Tail(s))

RECURSIVE MaxSeq(_)
MaxSeq(s) ==
    IF Len(s) = 1 THEN s[1]
    ELSE LET m == MaxSeq(Tail(s)) IN IF s[1] >= m THEN s[1] ELSE m

Min2(a, b) == IF a <= b THEN a ELSE b

\* Python's s[-n:] for n >= 0 (s[-0:] is s[0:], the whole sequence).
NegSlice(s, n) ==
    IF n = 0 \/ Len(s) <= n THEN s ELSE SubSeq(s, Len(s) - n + 1, Len(s))

\* torch.cat of a list of 1-D tensors.
RECURSIVE TorchCat(_)
TorchCat(ts) == IF ts = <<>> THEN <<>> ELSE Head(ts) \o TorchCat(Tail(ts))

\* torch.tensor([]): shape (0,).
EmptyTensor == [ndim |-> 1, ncols |-> 0, rows |-> <<>>]

\* A 2-D tensor built from its rows (ncols given for the case of no rows).
Tensor2(rows, ncols) == [ndim |-> 2, ncols |-> ncols, rows |-> rows]

\* torch.cat of two tensors along dim 0; a tensor of shape (0,) is skipped.
TorchCat2(a, b) ==
    IF a.ndim = 1 /\ a.rows = <<>> THEN b
    ELSE IF b.ndim = 1 /\ b.rows = <<>> THEN a
    ELSE [ndim |-> a.ndim, ncols |-> a.ncols, rows |-> a.rows \o b.rows]

RECURSIVE TorchCatViews(_)
TorchCatViews(ts) ==
    IF Len(ts) = 1 THEN ts[1] ELSE TorchCat2(ts[1], TorchCatViews(Tail(ts)))

\* t[-n:, :] on a 2-D tensor.
NegSliceRows(t, n) == [t EXCEPT !.rows = NegSlice(t.rows, n)]

\* ------------------------------------------------- results of compute()
NoResult == [kind |-> "none", num |-> 0, den |-> 1, exc |-> "none"]
NaN == [kind |-> "nan", num |-> 0, den |-> 1, exc |-> "none"]
Value(n, d) == [kind |-> "value", num |-> n, den |-> d, exc |-> "none"]
Raise(e) == [kind |-> "raise", num |-> 0, den |-> 1, exc |-> e]

\* ---------------------------------------------------- WindowedSingleValue
\* new_val is a scalar (ndim = 0, its value in val) or a vector (ndim = 1, its
\* elements in rows): a scalar is made a vector of one element.
Scalar(v) == [ndim |-> 0, val |-> v, rows |-> <<>>]
Vector(rows) == [ndim |-> 1, val |-> 0, rows |-> rows]
Unsqueeze(new_val) == IF new_val.ndim = 0 THEN <<new_val.val>> ELSE new_val.rows

WindowedSingleValue_update_first(vals, new_val, window) ==
    LET cat == TorchCat(<<vals, Unsqueeze(new_val)>>)
    IN IF Len(cat) > window THEN SubSeq(cat, 1, window) ELSE cat

WindowedSingleValue_update(vals, new_val, window) ==
    LET cat == TorchCat(<<vals, Unsqueeze(new_val)>>)
    IN IF Len(cat) > window THEN NegSlice(cat, window) ELSE cat

WindowedSingleValue_merge_state_others_reversed(self_vals, others_vals, window) ==
    LET n == Len(others_vals)
        cat == TorchCat(<<self_vals>> \o [i \in 1..n |-> others_vals[n + 1 - i]])
    IN IF Len(cat) > window THEN NegSlice(cat, window) ELSE cat

WindowedSingleValue_merge_state(self_vals, others_vals, window) ==
    LET cat == TorchCat(<<self_vals>> \o others_vals)
    IN IF Len(cat) > window THEN NegSlice(cat, window) ELSE cat

\* torch.mean of an empty tensor is nan.
WindowedMean_compute(vals) ==
    IF vals = <<>> THEN NaN ELSE Value(SumSeq(vals), Len(vals))

\* torch.max of an empty tensor raises RuntimeError.
WindowedMax_compute(vals) ==
    IF vals = <<>> THEN Raise("RuntimeError") ELSE Value(MaxSeq(vals), 1)

\* ------------------------------------------------------ WindowedCCAMetric
WindowedCCAMetric_update(v1, v2, in1, in2, window) ==
    LET c1 == TorchCat2(v1, in1)
        c2 == TorchCat2(v2, in2)
    IN IF Len(c1.rows) > window
       THEN <<NegSliceRows(c1, window), NegSliceRows(c2, window)>>
       ELSE <<c1, c2>>

WindowedCCAMetric_merge_state(v1, v2, others1, others2) ==
    <<TorchCatViews(<<v1>> \o others1), TorchCatViews(<<v2>> \o others2)>>

\* fit_ok: whether CCA.fit_transform and np.corrcoef finish without
\* np.linalg.LinAlgError; the correlation itself is not modelled.
\* CCA.fit_transform validates its input with ensure_min_samples=2 and
\* raises ValueError, which compute() does not catch, on a single sample and
\* on views of different numbers of rows (the guard of compute() looks at the
\* rows of views1 only).
\* (The first definition lets the LinAlgError through.)
WindowedCCAMetric_compute_uncaught(v1, v2, components, fit_ok) ==
    IF v1.ndim < 2 \/ v2.ndim < 2 THEN Raise("IndexError")
    ELSE IF components > Min2(Min2(v1.ncols, v2.ncols), Len(v1.rows)) THEN NaN
    ELSE IF Len(v1.rows) < 2 \/ Len(v1.rows) # Len(v2.rows)
    THEN Raise("ValueError")
    ELSE IF fit_ok THEN Value(0, 1)
    ELSE Raise("LinAlgError")

WindowedCCAMetric_compute(v1, v2, components, fit_ok) ==
    IF v1.ndim < 2 \/ v2.ndim < 2 THEN Raise("IndexError")
    ELSE IF components > Min2(Min2(v1.ncols, v2.ncols), Len(v1.rows)) THEN NaN
    ELSE IF Len(v1.rows) < 2 \/ Len(v1.rows) # Len(v2.rows)
    THEN Raise("ValueError")
    ELSE IF fit_ok THEN Value(0, 1)
    ELSE NaN

\* ------------------------------------------------------------- fractions
Abs(x) == IF x < 0 THEN 0 - x ELSE x

RECURSIVE Gcd(_, _)
Gcd(a, b) == IF b = 0 THEN a ELSE Gcd(b, a % b)

\* The fraction n / d (d # 0) in lowest terms with a positive denominator.
Frac(n, d) ==
    LET g == Gcd(Abs(n), Abs(d))
        sign == IF d < 0 THEN 0 - 1 ELSE 1
    IN <<(sign * n) \div g, (sign * d) \div g>>

FracAdd(x, y) == Frac(x[1] * y[2] + y[1] * x[2], x[2] * y[2])
FracDivInt(x, k) == Frac(x[1], x[2] * k)
FracLess(x, y) == x[1] * y[2] < y[1] * x[2]

RECURSIVE FracSum(_)
FracSum(s) == IF s = <<>> THEN <<0, 1>> ELSE FracAdd(Head(s), FracSum(Tail(s)))

\* ------------------------------------------- count-based metrics: operators
CountTrue(mask) == Cardinality({i \in DOMAIN mask : mask[i]})

\* The state of PositivesMaskPercentage is [positives, totals] (int32 counters,
\* which the counts reached here never overflow); the state of
\* the torcheval Mean inside MeanLossMetric is [weighted_sum, weights].
PositivesMaskPercentage_update(m, binary_mask) ==
    [positives |-> m.positives + CountTrue(binary_mask),
     totals |-> m.totals + Len(binary_mask)]

\* positives / totals; 0 / 0 is nan (positives # 0 implies totals # 0).
PositivesMaskPercentage_compute(m) ==
    IF m.totals = 0 THEN NaN
    ELSE LET r == Frac(m.positives, m.totals) IN Value(r[1], r[2])

RECURSIVE PositivesMaskPercentage_merge_state(_, _)
PositivesMaskPercentage_merge_state(m, metrics) ==
    IF metrics = <<>> THEN m
    ELSE PositivesMaskPercentage_merge_state(
             [positives |-> m.positives + Head(metrics).positives,
              totals |-> m.totals + Head(metrics).totals],
             Tail(metrics))

\* PositivesMaskPercentage.merge_state(metrics) on objects: an object is the
\* record of its attributes, and reading other.totals or other.positives of
\* an object without that attribute raises AttributeError.  totals is read
\* and added first, so an object with totals but without positives has its
\* totals added before the error.
RECURSIVE PositivesMaskPercentage_merge_state_objects(_, _)
PositivesMaskPercentage_merge_state_objects(m, metrics) ==
    IF metrics = <<>> THEN [kind |-> "ok", state |-> m]
    ELSE IF "totals" \notin DOMAIN Head(metrics)
    THEN [kind |-> "AttributeError", state |-> m]
    ELSE IF "positives" \notin DOMAIN Head(metrics)
    THEN [kind |-> "AttributeError",
          state |-> [m EXCEPT !.totals = @ + Head(metrics).totals]]
    ELSE PositivesMaskPercentage_merge_state_objects(
             [positives |-> m.positives + Head(metrics).positives,
              totals |-> m.totals + Head(metrics).totals],
             Tail(metrics))

\* An AccessorMetric keeps its metric in _inner_metric and registers no state
\* of its own.
AccessorMetric(inner_metric) == [inner_metric |-> inner_metric]

\* AccessorMetric.merge_state(metrics):
\* self._inner_metric.merge_state(metrics), metrics handed on as they are.
AccessorMetric_merge_state(self, metrics) ==
    PositivesMaskPercentage_merge_state_objects(self.inner_metric, metrics)

\* The state PositivesMaskPercentage.__init__ registers, which reset() puts
\* back.
PositivesMaskPercentage_init == [positives |-> 0, totals |-> 0]

\* AccessorMetric.reset: self._inner_metric.reset()
AccessorMetric_reset(self) ==
    [self EXCEPT !.inner_metric = PositivesMaskPercentage_init]

\* AccessorMetric.state_dict: the state dict of the inner metric, which
\* holds its registered states.
AccessorMetric_state_dict(self) ==
    [positives |-> self.inner_metric.positives,
     totals |-> self.inner_metric.totals]

\* AccessorMetric.load_state_dict: self._inner_metric.load_state_dict(...)
AccessorMetric_load_state_dict(self, state_dict) ==
    [self EXCEPT !.inner_metric = [positives |-> state_dict.positives,
                                   totals |-> state_dict.totals]]

\* The state of a Mean as constructed, which reset() puts back.
Mean_init == [weighted_sum |-> <<0, 1>>, weights |-> 0]

\* Mean.update(input) with a scalar input and the default weight 1.
Mean_update(mean, input) ==
    [weighted_sum |-> FracAdd(mean.weighted_sum, input),
     weights |-> mean.weights + 1]

\* Mean.compute(): 0.0 (with a warning) when nothing was added.
Mean_compute(mean) ==
    IF mean.weights = 0 THEN mean.weighted_sum
    ELSE FracDivInt(mean.weighted_sum, mean.weights)

\* MeanLossMetric.update: loss = loss_fn(outputs, labels) is a scalar.
MeanLossMetric_update(mean, loss) == Mean_update(mean, <<loss, 1>>)

MeanLossMetric_compute(mean) ==
    LET r == Mean_compute(mean) IN Value(r[1], r[2])

RECURSIVE MeanLossMetric_merge_state(_, _)
MeanLossMetric_merge_state(mean, metrics) ==
    IF metrics = <<>> THEN mean
    ELSE MeanLossMetric_merge_state(
             Mean_update(mean, Mean_compute(Head(metrics))), Tail(metrics))

\* MeanLossMetric.reset: self._mean_loss.reset()
MeanLossMetric_reset(mean) == Mean_init

\* MeanLossMetric.state_dict: "mean_loss" is the state dict of the Mean (the
\* state of the loss function, "loss_fn", is not part of the mean).
MeanLossMetric_state_dict(mean) ==
    [mean_loss |-> [weighted_sum |-> mean.weighted_sum,
                    weights |-> mean.weights]]

\* MeanLossMetric.load_state_dict
MeanLossMetric_load_state_dict(mean, state_dict) ==
    [weighted_sum |-> state_dict.mean_loss.weighted_sum,
     weights |-> state_dict.mean_loss.weights]

\* ---------------------------------------------------- retrieval: operators
\* Embeddings are non-zero integer vectors of the plane.  Unit-normalised
\* vectors are not representable exactly, so the inner products of
\* normalised vectors are compared exactly instead of being computed.
Dot(a, b) == a[1] * b[1] + a[2] * b[2]

\* <q/|q|, a/|a|> <= <q/|q|, b/|b|>
SimLeq(q, a, b) ==
    LET x == Dot(q, a)
        y == Dot(q, b)
        na == Dot(a, a)
        nb == Dot(b, b)
    IN IF x <= 0 /\ y >= 0 THEN TRUE
       ELSE IF x > 0 /\ y > 0 THEN x * x * nb <= y * y * na
       ELSE IF x < 0 /\ y < 0 THEN x * x * nb >= y * y * na
       ELSE FALSE

\* vec / np.linalg.norm(vec) is the same vector for a and b.
SameNormalized(a, b) == a[1] * b[2] = a[2] * b[1] /\ Dot(a, b) > 0

\* The sequences without repetition over S (lists of other metrics given to
\* merge_state, rows returned by the index).
RECURSIVE InjSeqs(_)
InjSeqs(S) ==
    {<<>>} \cup UNION {{<<x>> \o t : t \in InjSeqs(S \ {x})} : x \in S}

Range(f) == {f[i] : i \in DOMAIN f}

\* get_nearest_examples(EMBEDDING, query, k) on the exact inner-product index:
\* the rows of the min(k, n) best scores, best first.  Rows of equal score
\* come in an order the index does not define: every such order is a result.
NearestExamples(dataset, query, k) ==
    LET n == Len(dataset)
        len == IF k < n THEN k ELSE n
    IN {r \in InjSeqs(1..n) :
          /\ Len(r) = len
          /\ \A i \in 1..len : \A j \in 1..len :
                 i < j => SimLeq(query, dataset[r[j]].emb, dataset[r[i]].emb)
          /\ \A d \in (1..n) \ Range(r) : \A i \in 1..len :
                 SimLeq(query, dataset[d].emb, dataset[r[i]].emb)}

\* nearest_targets.examples[col.ID]
ExampleIds(dataset, r) == [i \in 1..Len(r) |-> dataset[r[i]].id]

\* if len(article[col.LABEL]) == 0: continue
SkipsArticle_never(article) == FALSE

SkipsArticle(article) == Len(article.label) = 0

\* nearest_targets.examples[col.ID][1:]
DropQueryItself_last(ids) == IF ids = <<>> THEN ids ELSE SubSeq(ids, 1, Len(ids) - 1)

DropQueryItself(ids) == IF ids = <<>> THEN ids ELSE Tail(ids)

\* The pair _get_nearest_ids_from_faiss yields for an article that is not
\* skipped, given the rows r the index returned for it (with the article's
\* id and the ids of the rows, which the pair is made from).
YieldedPair(dataset, article, r) ==
    [query |-> article.id,
     nearest |-> ExampleIds(dataset, r),
     true_ids |-> article.label,
     pred_ids |-> DropQueryItself(ExampleIds(dataset, r))]

NoPair == [query |-> 0, nearest |-> <<>>, true_ids |-> <<>>, pred_ids |-> <<>>]

\* ------------------------------------------- _evaluate_ir_metrics: operators
\* x / 0 in numpy arithmetic: nan (only 0.0 / 0 occurs here).
NaNFrac == <<0, 0>>
Divide(n, d) == IF d = 0 THEN NaNFrac ELSE Frac(n, d)

\* np.mean(list).item(): nan for an empty list.
NpMean(s) ==
    IF s = <<>> THEN NaNFrac
    ELSE IF \E i \in DOMAIN s : s[i] = NaNFrac THEN NaNFrac
    ELSE FracDivInt(FracSum(s), Len(s))

\* 1 / (first_hit_ind if first_hit_ind > 0 else 1)
ReciprocalRank_plus_one(first_hit_ind) == Frac(1, first_hit_ind + 1)

ReciprocalRank(first_hit_ind) ==
    Frac(1, IF first_hit_ind > 0 THEN first_hit_ind ELSE 1)

\* i / max_rank
PercentileRank_from_one(i, max_rank) == Frac(i + 1, max_rank)

PercentileRank(i, max_rank) == Frac(i, max_rank)

\* (i < hits_thresholds).astype("int32"), per threshold
UnderThreshold_inclusive(i, threshold) == IF i <= threshold THEN 1 ELSE 0

UnderThreshold(i, threshold) == IF i < threshold THEN 1 ELSE 0

\* The loop over enumerate(pred_ids) from index i on; st holds first_hit_ind,
\* percentile_ranks and query_hits.
RECURSIVE PredictionsLoop(_, _, _, _, _)
PredictionsLoop(i, true_ids, pred_ids, thresholds, st) ==
    IF i >= Len(pred_ids) THEN st
    ELSE IF pred_ids[i + 1] \notin Range(true_ids)
    THEN PredictionsLoop(i + 1, true_ids, pred_ids, thresholds, st)
    ELSE PredictionsLoop(i + 1, true_ids, pred_ids, thresholds,
             [first_hit_ind |->
                  IF st.first_hit_ind > i THEN i ELSE st.first_hit_ind,
              percentile_ranks |->
                  Append(st.percentile_ranks, PercentileRank(i, Len(pred_ids))),
              query_hits |->
                  [t \in DOMAIN thresholds |->
                       st.query_hits[t] + UnderThreshold(i, thresholds[t])]])

\* One iteration of the loop over the (true_ids, pred_ids) pairs; acc holds
\* reciprocal_rank, total_queries, percentile_ranks and hit_percentages.
QueryStep(acc, true_ids, pred_ids, thresholds) ==
    LET max_rank == Len(pred_ids)
        st == PredictionsLoop(0, true_ids, pred_ids, thresholds,
                  [first_hit_ind |-> max_rank,
                   percentile_ranks |-> acc.percentile_ranks,
                   query_hits |-> [t \in DOMAIN thresholds |-> 0]])
    IN [reciprocal_rank |->
            FracAdd(acc.reciprocal_rank, ReciprocalRank(st.first_hit_ind)),
        total_queries |-> acc.total_queries + 1,
        percentile_ranks |-> st.percentile_ranks,
        hit_percentages |->
            [t \in DOMAIN thresholds |->
                 Append(acc.hit_percentages[t],
                        Divide(st.query_hits[t], Len(true_ids)))]]

\* The state before the first pair.
EmptyAcc(thresholds) ==
    [reciprocal_rank |-> <<0, 1>>,
     total_queries |-> 0,
     percentile_ranks |-> <<>>,
     hit_percentages |-> [t \in DOMAIN thresholds |-> <<>>]]

NoResults ==
    [kind |-> "none", mean_reciprocal_rank |-> NaNFrac,
     mean_percentile_rank |-> NaNFrac, hit_rate_at |-> <<>>]

\* The results mapping; reciprocal_rank / total_queries raises
\* ZeroDivisionError when no pair was consumed.
Results(acc, thresholds) ==
    IF acc.total_queries = 0
    THEN [NoResults EXCEPT !.kind = "ZeroDivisionError"]
    ELSE [kind |-> "ok",
          mean_reciprocal_rank |->
              FracDivInt(acc.reciprocal_rank, acc.total_queries),
          mean_percentile_rank |-> NpMean(acc.percentile_ranks),
          hit_rate_at |->
              [t \in DOMAIN thresholds |-> NpMean(acc.hit_percentages[t])]]

\* _evaluate_ir_metrics on a whole list of pairs.
RECURSIVE EvaluateLoop(_, _, _)
EvaluateLoop(acc, pairs, thresholds) ==
    IF pairs = <<>> THEN acc
    ELSE EvaluateLoop(
             QueryStep(acc, Head(pairs).true_ids, Head(pairs).pred_ids,
                       thresholds),
             Tail(pairs), thresholds)

EvaluateIRMetrics(pairs, thresholds) ==
    Results(EvaluateLoop(EmptyAcc(thresholds), pairs, thresholds), thresholds)

\* ------------------------------------------------------------------ state
VARIABLES
    \* windowed metrics
    metric_class,     \* class of the metric every worker holds a replica of
    max_window_size,  \* WindowedSingleValue / WindowedCCAMetric.max_window_size
    n_components,     \* WindowedCCAMetric.n_components
    values,           \* WindowedSingleValue.values, per worker
    views1,           \* WindowedCCAMetric.views1, per worker
    views2,           \* WindowedCCAMetric.views2, per worker
    inserted,         \* per worker: the rows given to update since creation/reset
    next_row,         \* the next fresh row value
    merges,           \* number of merge_state calls so far
    last,             \* the last call: receiver, rows handed in, result
    \* count-based metrics
    count_class,      \* PositivesMaskPercentage or MeanLossMetric
    pmp,              \* per metric: [positives, totals]
    mean_loss,        \* per metric: the Mean of MeanLossMetric
    absorber,         \* the worker merge_state was called on (0: not merged yet)
    updates,          \* number of update calls so far
    merged,           \* outcome of merge_state on an AccessorMetric
    \* retrieval evaluation
    docs,             \* the test split: records [id, label, emb]
    top_k,            \* k of _get_nearest_ids_from_faiss
    pos,              \* number of articles the generator has gone through
    hits_thresholds,  \* hits_thresholds of _evaluate_ir_metrics
    yielded,          \* the pair _get_nearest_ids_from_faiss yielded last
    queries,          \* the pairs an iterable given to _evaluate_ir_metrics
                      \* directly has yielded so far
    reciprocal_rank,  \* locals of _evaluate_ir_metrics
    total_queries,
    percentile_ranks,
    hit_percentages,
    results,          \* what _evaluate_ir_metrics returned (kind "none" before)
    \* StaticContextualLoss
    scl,              \* the constructor arguments of the loss
    scl_in,           \* the batch the last forward was given
    scl_out,          \* what the last forward computed and returned
    \* RunningCCALoss / StochasticDecorrelationLoss
    run_class,        \* class of the running estimator
    run,              \* the estimator: buffers and plain attributes
    resumed,          \* a fresh instance that loaded run's state_dict
    run_batch,        \* the batch the last forward was given
    run_out,          \* what the last forward of run computed and returned
    resumed_out,      \* what the last forward of resumed computed and returned
    calls,            \* number of forward calls of run so far
    \* CCALoss
    cca_call,         \* the last CCALoss.forward call: shapes and outcome
    \* ParagraphVectorEmbed.train and its callbacks
    ev,               \* the EvaluateIRMetrics callback (None: there is none)
    ck,               \* the CheckpointSave callback (None: there is none)
    training,         \* train(): its arguments and the position of its loop
    epoch_ends,       \* number of on_epoch_end calls so far
    evaluated,        \* the evaluations so far: call number, score, saved
    best_saved,       \* the model at save_best_path: call number and score
    written,          \* the checkpoints written so far
    \* HFTask
    task,             \* the constructor arguments of the task
    retrieved,        \* what _retrieve_dataset returns
    splits            \* HFTask._splits

winVars == <<metric_class, max_window_size, n_components, values, views1,
             views2, inserted, next_row, merges, last>>

cntVars == <<count_class, pmp, mean_loss, absorber, updates, merged>>

irVars == <<docs, top_k, pos, hits_thresholds, yielded, queries, reciprocal_rank,
            total_queries, percentile_ranks, hit_percentages, results>>

sclVars == <<scl, scl_in, scl_out>>

runVars == <<run_class, run, resumed, run_batch, run_out, resumed_out, calls>>

ccaVars == <<cca_call>>

lossVars == <<sclVars, runVars, ccaVars>>

pvVars == <<ev, ck, training, epoch_ends, evaluated, best_saved, written>>

taskVars == <<task, retrieved, splits>>

vars == <<winVars, cntVars, irVars, lossVars, pvVars, taskVars>>

\* ------------------------------------------------- windowed metrics: state
WindowedClasses == {"WindowedMean", "WindowedMax", "WindowedCCAMetric"}
SingleValueClasses == {"WindowedMean", "WindowedMax"}

\* The rows a batch is made of: row s of view 1 and row s of view 2.
Row1(s) == <<s>>
Row2(s) == <<0 - s, s>>
Dim1 == Len(Row1(1))
Dim2 == Len(Row2(1))
Fresh(n) == [i \in 1..n |-> next_row + i - 1]

\* The record of a call: rows is the number of rows in the argument of update,
\* or in all the buffers merge_state concatenates.
LastCall(op, w, rows, result) ==
    [op |-> op, self |-> w, rows |-> rows, result |-> result]

WinInit ==
    /\ metric_class \in WindowedClasses
    /\ max_window_size \in 1..MaxWindow
    /\ n_components \in
           IF metric_class = "WindowedCCAMetric" THEN 1..MaxComponents ELSE {0}
    /\ values = [w \in Workers |-> <<>>]
    /\ views1 = [w \in Workers |-> EmptyTensor]
    /\ views2 = [w \in Workers |-> EmptyTensor]
    /\ inserted = [w \in Workers |-> <<>>]
    /\ next_row = 1
    /\ merges = 0
    /\ last = LastCall("init", 0, 0, NoResult)

\* No windowed metric is in use.
WinIdle ==
    /\ metric_class = "none"
    /\ max_window_size = 0
    /\ n_components = 0
    /\ values = <<>>
    /\ views1 = <<>>
    /\ views2 = <<>>
    /\ inserted = <<>>
    /\ next_row = 0
    /\ merges = 0
    /\ last = LastCall("init", 0, 0, NoResult)

\* WindowedSingleValue.update(new_val), new_val a scalar or a vector of n rows.
SingleUpdate(w, n, scalar) ==
    /\ metric_class \in SingleValueClasses
    /\ next_row + n - 1 <= MaxRows
    /\ scalar => n = 1
    /\ LET new_val == IF scalar THEN Scalar(Fresh(1)[1]) ELSE Vector(Fresh(n))
       IN /\ values' = [values EXCEPT ![w] =
                 WindowedSingleValue_update(values[w], new_val, max_window_size)]
          /\ inserted' = [inserted EXCEPT ![w] = @ \o Fresh(n)]
    /\ next_row' = next_row + n
    /\ last' = LastCall("update", w, n, NoResult)
    /\ UNCHANGED <<metric_class, max_window_size, n_components, views1, views2,
                   merges>>
    /\ UNCHANGED <<cntVars, irVars, lossVars, pvVars, taskVars>>

\* Metrics that are not replicas: each was updated elsewhere with one row that
\* no update of a replica inserts, so the metric a row came from can be read
\* off the row.
OtherMetrics == {NumWorkers + 1, NumWorkers + 2}
OtherValues(m) == <<MaxRows + (m - NumWorkers)>>

\* m.values of a metric handed to merge_state.
ValuesOf(m) == IF m \in Workers THEN values[m] ELSE OtherValues(m)

\* The record of a merge_state call: metrics is the list it was called with,
\* before the buffers of the replicas when it was called.
MergeCall(w, rows, metrics, before) ==
    [op |-> "merge_state", self |-> w, rows |-> rows, result |-> NoResult,
     metrics |-> metrics, before |-> before]

\* WindowedSingleValue.merge_state(metrics)
SingleMergeState(w, others) ==
    /\ metric_class \in SingleValueClasses
    /\ merges < MaxMerges
    /\ LET others_vals == [i \in 1..Len(others) |-> ValuesOf(others[i])]
       IN /\ values' = [values EXCEPT ![w] =
                 WindowedSingleValue_merge_state(values[w], others_vals,
                                                 max_window_size)]
          /\ last' = MergeCall(w, Len(values[w]) + Len(TorchCat(others_vals)),
                               others, values)
    /\ merges' = merges + 1
    /\ UNCHANGED <<metric_class, max_window_size, n_components, views1, views2,
                   inserted, next_row>>
    /\ UNCHANGED <<cntVars, irVars, lossVars, pvVars, taskVars>>

\* WindowedMean.compute() / WindowedMax.compute()
SingleCompute(w) ==
    /\ metric_class \in SingleValueClasses
    /\ last' = LastCall("compute", w, 0,
                        IF metric_class = "WindowedMean"
                        THEN WindowedMean_compute(values[w])
                        ELSE WindowedMax_compute(values[w]))
    /\ UNCHANGED <<metric_class, max_window_size, n_components, values, views1,
                   views2, inserted, next_row, merges>>
    /\ UNCHANGED <<cntVars, irVars, lossVars, pvVars, taskVars>>

\* WindowedCCAMetric.update(views1, views2) with two views of n aligned rows.
CCAUpdate(w, n) ==
    /\ metric_class = "WindowedCCAMetric"
    /\ next_row + n - 1 <= MaxRows
    /\ LET in1 == Tensor2([i \in 1..n |-> Row1(Fresh(n)[i])], Dim1)
           in2 == Tensor2([i \in 1..n |-> Row2(Fresh(n)[i])], Dim2)
           res == WindowedCCAMetric_update(views1[w], views2[w], in1, in2,
                                           max_window_size)
       IN /\ views1' = [views1 EXCEPT ![w] = res[1]]
          /\ views2' = [views2 EXCEPT ![w] = res[2]]
    /\ inserted' = [inserted EXCEPT ![w] = @ \o Fresh(n)]
    /\ next_row' = next_row + n
    /\ last' = LastCall("update", w, n, NoResult)
    /\ UNCHANGED <<metric_class, max_window_size, n_components, values, merges>>
    /\ UNCHANGED <<cntVars, irVars, lossVars, pvVars, taskVars>>

\* WindowedCCAMetric.update(views1, views2) with views of n1 and n2 rows;
\* update has no check of the row counts.
CCAUpdateViews(w, n1, n2) ==
    /\ metric_class = "WindowedCCAMetric"
    /\ next_row + (IF n1 >= n2 THEN n1 ELSE n2) - 1 <= MaxRows
    /\ LET in1 == Tensor2([i \in 1..n1 |-> Row1(Fresh(n1)[i])], Dim1)
           in2 == Tensor2([i \in 1..n2 |-> Row2(Fresh(n2)[i])], Dim2)
           res == WindowedCCAMetric_update(views1[w], views2[w], in1, in2,
                                           max_window_size)
       IN /\ views1' = [views1 EXCEPT ![w] = res[1]]
          /\ views2' = [views2 EXCEPT ![w] = res[2]]
    /\ inserted' = [inserted EXCEPT ![w] = @ \o Fresh(n1)]
    /\ next_row' = next_row + (IF n1 >= n2 THEN n1 ELSE n2)
    /\ last' = LastCall("update", w, n1, NoResult)
    /\ UNCHANGED <<metric_class, max_window_size, n_components, values, merges>>
    /\ UNCHANGED <<cntVars, irVars, lossVars, pvVars, taskVars>>

\* WindowedCCAMetric.merge_state(metrics)
CCAMergeState(w, others) ==
    /\ metric_class = "WindowedCCAMetric"
    /\ merges < MaxMerges
    /\ LET others1 == [i \in 1..Len(others) |-> views1[others[i]]]
           others2 == [i \in 1..Len(others) |-> views2[others[i]]]
           res == WindowedCCAMetric_merge_state(views1[w], views2[w],
                                                others1, others2)
       IN /\ views1' = [views1 EXCEPT ![w] = res[1]]
          /\ views2' = [views2 EXCEPT ![w] = res[2]]
          /\ last' = LastCall("merge_state", w,
                              Len(TorchCatViews(<<views1[w]>> \o others1).rows),
                              NoResult)
    /\ merges' = merges + 1
    /\ UNCHANGED <<metric_class, max_window_size, n_components, values,
                   inserted, next_row>>
    /\ UNCHANGED <<cntVars, irVars, lossVars, pvVars, taskVars>>

\* WindowedCCAMetric.compute()
CCACompute(w, fit_ok) ==
    /\ metric_class = "WindowedCCAMetric"
    /\ last' = LastCall("compute", w, 0,
                        WindowedCCAMetric_compute(views1[w], views2[w],
                                                  n_components, fit_ok))
    /\ UNCHANGED <<metric_class, max_window_size, n_components, values, views1,
                   views2, inserted, next_row, merges>>
    /\ UNCHANGED <<cntVars, irVars, lossVars, pvVars, taskVars>>

\* Metric.reset(): every state registered with _add_state returns to its default.
Reset(w) ==
    /\ values' = [values EXCEPT ![w] = <<>>]
    /\ views1' = [views1 EXCEPT ![w] = EmptyTensor]
    /\ views2' = [views2 EXCEPT ![w] = EmptyTensor]
    /\ inserted' = [inserted EXCEPT ![w] = <<>>]
    /\ last' = LastCall("reset", w, 0, NoResult)
    /\ UNCHANGED <<metric_class, max_window_size, n_components, next_row, merges>>
    /\ UNCHANGED <<cntVars, irVars, lossVars, pvVars, taskVars>>

\* ------------------------------------------------ count-based metrics: state
CountClasses == {"PositivesMaskPercentage", "MeanLossMetric"}

\* Metric 0 is the single metric that receives every update of every worker.
Single == 0
Metrics == Workers \cup {Single}

Losses == 0..MaxLoss

Masks == UNION {[1..n -> BOOLEAN] : n \in 0..MaxBatch}

\* The permutations of the workers other than w.
AllOthers(w) == {o \in InjSeqs(Workers \ {w}) : Len(o) = NumWorkers - 1}

CntInit ==
    /\ count_class \in CountClasses
    /\ pmp = [m \in Metrics |-> PositivesMaskPercentage_init]
    /\ mean_loss = [m \in Metrics |-> Mean_init]
    /\ absorber = 0
    /\ updates = 0
    /\ merged = "none"

\* No count-based metric is in use.
CntIdle ==
    /\ count_class = "none"
    /\ pmp = <<>>
    /\ mean_loss = <<>>
    /\ absorber = 0
    /\ updates = 0
    /\ merged = "none"

\* PositivesMaskPercentage.update(binary_mask) on worker w.
PMPUpdate(w, binary_mask) ==
    /\ count_class = "PositivesMaskPercentage"
    /\ absorber = 0
    /\ updates < MaxUpdates
    /\ pmp' = [pmp EXCEPT
           ![w] = PositivesMaskPercentage_update(@, binary_mask),
           ![Single] = PositivesMaskPercentage_update(@, binary_mask)]
    /\ updates' = updates + 1
    /\ UNCHANGED <<count_class, mean_loss, absorber, merged>>
    /\ UNCHANGED <<winVars, irVars, lossVars, pvVars, taskVars>>

\* PositivesMaskPercentage.merge_state(metrics) on worker w.
PMPMergeState(w, others) ==
    /\ count_class = "PositivesMaskPercentage"
    /\ absorber = 0
    /\ pmp' = [pmp EXCEPT ![w] = PositivesMaskPercentage_merge_state(
                   @, [i \in 1..Len(others) |-> pmp[others[i]]])]
    /\ absorber' = w
    /\ UNCHANGED <<count_class, mean_loss, updates, merged>>
    /\ UNCHANGED <<winVars, irVars, lossVars, pvVars, taskVars>>

\* MeanLossMetric.update(outputs, labels) on worker w, the loss being `loss`.
MeanLossUpdate(w, loss) ==
    /\ count_class = "MeanLossMetric"
    /\ absorber = 0
    /\ updates < MaxUpdates
    /\ mean_loss' = [mean_loss EXCEPT
           ![w] = MeanLossMetric_update(@, loss),
           ![Single] = MeanLossMetric_update(@, loss)]
    /\ updates' = updates + 1
    /\ UNCHANGED <<count_class, pmp, absorber, merged>>
    /\ UNCHANGED <<winVars, irVars, lossVars, pvVars, taskVars>>

\* MeanLossMetric.merge_state(metrics) on worker w.
MeanLossMergeState(w, others) ==
    /\ count_class = "MeanLossMetric"
    /\ absorber = 0
    /\ mean_loss' = [mean_loss EXCEPT ![w] = MeanLossMetric_merge_state(
                         @, [i \in 1..Len(others) |-> mean_loss[others[i]]])]
    /\ absorber' = w
    /\ UNCHANGED <<count_class, pmp, updates, merged>>
    /\ UNCHANGED <<winVars, irVars, lossVars, pvVars, taskVars>>

\* What the single metric holds once a worker that held `old` holds `new`:
\* the updates that the workers still hold.
MeanWithout(single, old, new) ==
    [weighted_sum |->
         FracAdd(FracAdd(single.weighted_sum,
                         <<0 - old.weighted_sum[1], old.weighted_sum[2]>>),
                 new.weighted_sum),
     weights |-> single.weights - old.weights + new.weights]

CountsWithout(single, old, new) ==
    [positives |-> single.positives - old.positives + new.positives,
     totals |-> single.totals - old.totals + new.totals]

\* MeanLossMetric.reset() on worker w.
MeanLossReset(w) ==
    /\ count_class = "MeanLossMetric"
    /\ absorber = 0
    /\ mean_loss[w] # Mean_init
    /\ \E res \in {MeanLossMetric_reset(mean_loss[w])} :
           mean_loss' = [mean_loss EXCEPT
               ![w] = res,
               ![Single] = MeanWithout(@, mean_loss[w], res)]
    /\ UNCHANGED <<count_class, pmp, absorber, updates, merged>>
    /\ UNCHANGED <<winVars, irVars, lossVars, pvVars, taskVars>>

\* MeanLossMetric.load_state_dict on worker w of the state_dict() of the
\* metric of worker o.
MeanLossLoadStateDict(w, o) ==
    /\ count_class = "MeanLossMetric"
    /\ absorber = 0
    /\ mean_loss[w] # mean_loss[o]
    /\ \E res \in {MeanLossMetric_load_state_dict(
                        mean_loss[w], MeanLossMetric_state_dict(mean_loss[o]))} :
           mean_loss' = [mean_loss EXCEPT
               ![w] = res,
               ![Single] = MeanWithout(@, mean_loss[w], res)]
    /\ UNCHANGED <<count_class, pmp, absorber, updates, merged>>
    /\ UNCHANGED <<winVars, irVars, lossVars, pvVars, taskVars>>

\* Every worker holds a PercentLengthBelowThres, an AccessorMetric around a
\* PositivesMaskPercentage whose state is pmp.
AccInit ==
    /\ count_class = "PercentLengthBelowThres"
    /\ pmp = [m \in Metrics |-> PositivesMaskPercentage_init]
    /\ mean_loss = <<>>
    /\ absorber = 0
    /\ updates = 0
    /\ merged = "none"

\* PercentLengthBelowThres.update(outputs, batch): the accessor updates the
\* inner metric with batch["length"] < length_threshold.
AccUpdate(w, binary_mask) ==
    /\ count_class = "PercentLengthBelowThres"
    /\ absorber = 0
    /\ updates < MaxUpdates
    /\ pmp' = [pmp EXCEPT
           ![w] = PositivesMaskPercentage_update(@, binary_mask),
           ![Single] = PositivesMaskPercentage_update(@, binary_mask)]
    /\ updates' = updates + 1
    /\ UNCHANGED <<count_class, mean_loss, absorber, merged>>
    /\ UNCHANGED <<winVars, irVars, lossVars, pvVars, taskVars>>

\* AccessorMetric.merge_state(metrics) on worker w with the metrics of the
\* workers `others`.
AccMergeState(w, others) ==
    /\ count_class = "PercentLengthBelowThres"
    /\ absorber = 0
    /\ \E res \in {AccessorMetric_merge_state(
                        AccessorMetric(pmp[w]),
                        [i \in 1..Len(others) |->
                             AccessorMetric(pmp[others[i]])])} :
           /\ pmp' = [pmp EXCEPT ![w] = res.state]
           /\ merged' = res.kind
    /\ absorber' = w
    /\ UNCHANGED <<count_class, mean_loss, updates>>
    /\ UNCHANGED <<winVars, irVars, lossVars, pvVars, taskVars>>

\* AccessorMetric.reset() on worker w.
AccReset(w) ==
    /\ count_class = "PercentLengthBelowThres"
    /\ absorber = 0
    /\ pmp[w] # PositivesMaskPercentage_init
    /\ \E res \in {AccessorMetric_reset(AccessorMetric(pmp[w]))} :
           pmp' = [pmp EXCEPT
               ![w] = res.inner_metric,
               ![Single] = CountsWithout(@, pmp[w], res.inner_metric)]
    /\ UNCHANGED <<count_class, mean_loss, absorber, updates, merged>>
    /\ UNCHANGED <<winVars, irVars, lossVars, pvVars, taskVars>>

\* AccessorMetric.load_state_dict on worker w of the state_dict() of the
\* metric of worker o.
AccLoadStateDict(w, o) ==
    /\ count_class = "PercentLengthBelowThres"
    /\ absorber = 0
    /\ pmp[w] # pmp[o]
    /\ \E res \in {AccessorMetric_load_state_dict(
                        AccessorMetric(pmp[w]),
                        AccessorMetric_state_dict(AccessorMetric(pmp[o])))} :
           pmp' = [pmp EXCEPT
               ![w] = res.inner_metric,
               ![Single] = CountsWithout(@, pmp[w], res.inner_metric)]
    /\ UNCHANGED <<count_class, mean_loss, absorber, updates, merged>>
    /\ UNCHANGED <<winVars, irVars, lossVars, pvVars, taskVars>>

\* Lists of objects that are not wrappers: with both counters, with totals
\* only, with positives only.
ForeignLists ==
    {<<[totals |-> 1]>>, <<[positives |-> 1]>>,
     <<[positives |-> 1, totals |-> 1], [totals |-> 2]>>,
     <<[positives |-> 1, totals |-> 2]>>}

\* AccessorMetric.merge_state(metrics) on worker w with a list of objects
\* that are not wrappers.
AccMergeObjects(w, metrics) ==
    /\ count_class = "PercentLengthBelowThres"
    /\ absorber = 0
    /\ \E res \in {AccessorMetric_merge_state(AccessorMetric(pmp[w]),
                                               metrics)} :
           /\ pmp' = [pmp EXCEPT ![w] = res.state]
           /\ merged' = res.kind
    /\ absorber' = w
    /\ UNCHANGED <<count_class, mean_loss, updates>>
    /\ UNCHANGED <<winVars, irVars, lossVars, pvVars, taskVars>>

AccNext ==
    \/ \E w \in Workers, metrics \in ForeignLists : AccMergeObjects(w, metrics)
    \/ \E w \in Workers, mask \in Masks : AccUpdate(w, mask)
    \/ \E w \in Workers : \E others \in AllOthers(w) \cup {<<>>} :
           AccMergeState(w, others)
    \/ \E w \in Workers : AccReset(w)
    \/ \E w \in Workers : \E o \in Workers \ {w} : AccLoadStateDict(w, o)

CntNext ==
    \/ \E w \in Workers, mask \in Masks : PMPUpdate(w, mask)
    \/ \E w \in Workers : \E others \in AllOthers(w) : PMPMergeState(w, others)
    \/ \E w \in Workers, loss \in Losses : MeanLossUpdate(w, loss)
    \/ \E w \in Workers : \E others \in AllOthers(w) :
           MeanLossMergeState(w, others)
    \/ \E w \in Workers : MeanLossReset(w)
    \/ \E w \in Workers : \E o \in Workers \ {w} :
           MeanLossLoadStateDict(w, o)

\* ------------------------------------------------ retrieval evaluation: state
\* The embeddings documents are given; <<1, 0>> and <<2, 0>> normalise to the
\* same vector.
Embeddings == {<<1, 0>>, <<2, 0>>, <<0, 1>>, <<1, 1>>}

DocId(i) == 10 * i

\* The label of document i of n: no target, or the next document.
LabelKinds == {"none", "next"}
Label(i, n, kind) == IF kind = "none" THEN <<>> ELSE <<DocId((i % n) + 1)>>

Datasets ==
    {[i \in 1..NumDocs |->
          [id |-> DocId(i), label |-> Label(i, NumDocs, kinds[i]),
           emb |-> embs[i]]] :
         kinds \in [1..NumDocs -> LabelKinds],
         embs \in [1..NumDocs -> Embeddings]}

\* k = 1000 and hits_thresholds = [10, 100] in RetrievalEval.__call__.
CallK == 1000
CallThresholds == <<10, 100>>

\* The pairs and thresholds _evaluate_ir_metrics is given directly.  Id 0 is
\* the id of a document that is in no label.
TrueIdChoices == {<<1>>, <<2>>, <<1, 2>>}
PredIdChoices == InjSeqs({0, 1, 2})
ExamplePair == [true_ids |-> <<1, 2, 3>>, pred_ids |-> <<2, 5, 1, 9>>]
Pairs ==
    {[true_ids |-> t, pred_ids |-> p] :
         t \in TrueIdChoices, p \in PredIdChoices} \cup {ExamplePair}
ThresholdChoices == {<<2, 3>>, <<1, 10>>}

Acc == [reciprocal_rank |-> reciprocal_rank, total_queries |-> total_queries,
        percentile_ranks |-> percentile_ranks,
        hit_percentages |-> hit_percentages]

\* _evaluate_ir_metrics before its loop, for the given arguments.
IRStart(dataset, k, thresholds) ==
    /\ docs = dataset
    /\ top_k = k
    /\ pos = 0
    /\ hits_thresholds = thresholds
    /\ yielded = NoPair
    /\ queries = <<>>
    /\ reciprocal_rank = EmptyAcc(thresholds).reciprocal_rank
    /\ total_queries = EmptyAcc(thresholds).total_queries
    /\ percentile_ranks = EmptyAcc(thresholds).percentile_ranks
    /\ hit_percentages = EmptyAcc(thresholds).hit_percentages
    /\ results = NoResults

\* _get_nearest_ids_from_faiss feeding _evaluate_ir_metrics, as in
\* RetrievalEval.__call__; k is the argument of _get_nearest_ids_from_faiss
\* (1000 in __call__, 1 to have fewer predictions than other documents).
RetrievalInit ==
    \E dataset \in Datasets, k \in {1, CallK} :
        IRStart(dataset, k, CallThresholds)

\* No retrieval evaluation is run.
IRIdle == IRStart(<<>>, 0, <<>>)

\* _evaluate_ir_metrics called on an iterable of pairs.
IRInit == \E thresholds \in ThresholdChoices : IRStart(<<>>, 0, thresholds)

\* The loop body of _evaluate_ir_metrics on the pair `pair`.
Consume(pair) ==
    LET acc == QueryStep(Acc, pair.true_ids, pair.pred_ids, hits_thresholds)
    IN /\ reciprocal_rank' = acc.reciprocal_rank
       /\ total_queries' = acc.total_queries
       /\ percentile_ranks' = acc.percentile_ranks
       /\ hit_percentages' = acc.hit_percentages

\* The generator goes past an article without a label.
RetrievalSkip ==
    /\ results.kind = "none"
    /\ pos < Len(docs)
    /\ SkipsArticle(docs[pos + 1])
    /\ pos' = pos + 1
    /\ UNCHANGED <<docs, top_k, hits_thresholds, yielded, queries,
                   reciprocal_rank, total_queries, percentile_ranks,
                   hit_percentages, results>>
    /\ UNCHANGED <<winVars, cntVars, lossVars, pvVars, taskVars>>

\* The generator queries the index for an article, gets the rows r, and yields
\* the article's pair, which the loop of _evaluate_ir_metrics consumes.
RetrievalQuery(r) ==
    /\ results.kind = "none"
    /\ pos < Len(docs)
    /\ ~SkipsArticle(docs[pos + 1])
    /\ yielded' = YieldedPair(docs, docs[pos + 1], r)
    /\ Consume(yielded')
    /\ pos' = pos + 1
    /\ UNCHANGED <<docs, top_k, hits_thresholds, queries, results>>
    /\ UNCHANGED <<winVars, cntVars, lossVars, pvVars, taskVars>>

\* The generator is exhausted: _evaluate_ir_metrics builds its results.
RetrievalReturn ==
    /\ results.kind = "none"
    /\ pos = Len(docs)
    /\ results' = Results(Acc, hits_thresholds)
    /\ UNCHANGED <<docs, top_k, pos, hits_thresholds, yielded, queries,
                   reciprocal_rank, total_queries, percentile_ranks,
                   hit_percentages>>
    /\ UNCHANGED <<winVars, cntVars, lossVars, pvVars, taskVars>>

\* What the index can return for the article the generator is at.
QueryRows ==
    IF pos < Len(docs)
    THEN NearestExamples(docs, docs[pos + 1].emb, top_k + 1)
    ELSE {}

RetrievalNext ==
    \/ RetrievalSkip
    \/ \E r \in QueryRows : RetrievalQuery(r)
    \/ RetrievalReturn

\* The iterable given to _evaluate_ir_metrics yields `pair`.
IRConsume(pair) ==
    /\ results.kind = "none"
    /\ Len(queries) < MaxQueries
    /\ queries' = Append(queries, pair)
    /\ Consume(pair)
    /\ UNCHANGED <<docs, top_k, pos, hits_thresholds, yielded, results>>
    /\ UNCHANGED <<winVars, cntVars, lossVars, pvVars, taskVars>>

\* The iterable given to _evaluate_ir_metrics is exhausted.
IRReturn ==
    /\ results.kind = "none"
    /\ results' = Results(Acc, hits_thresholds)
    /\ UNCHANGED <<docs, top_k, pos, hits_thresholds, yielded, queries,
                   reciprocal_rank, total_queries, percentile_ranks,
                   hit_percentages>>
    /\ UNCHANGED <<winVars, cntVars, lossVars, pvVars, taskVars>>

IRNext ==
    \/ \E pair \in Pairs : IRConsume(pair)
    \/ IRReturn

\* ------------------------------------------------- StaticContextualLoss
\* Two classes of this name exist: models/transformer/student.py ("student")
\* and utils/torch/losses.py ("losses").  A batch is a sequence of rows
\* [length, input, sbert, dbow] of one feature each.
\* An optional argument: None, or Some(value).
None == <<>>
Some(x) == <<x>>

FracMul(x, y) == Frac(x[1] * y[1], x[2] * y[2])

SquaredError(row) == (row.input - row.sbert) * (row.input - row.sbert)

\* student.py: targets[len_key] <= contextual_max_length, or ones_like when
\* no maximal length is configured.
student_ContextualMask(rows, contextual_max_length) ==
    [i \in DOMAIN rows |->
         IF contextual_max_length # None
         THEN (IF rows[i].length <= contextual_max_length[1] THEN 1 ELSE 0)
         ELSE 1]

\* losses.py: targets[len_key] < contextual_max_length, or ones when no length
\* key is configured.
losses_ContextualMask(rows, len_key, contextual_max_length) ==
    [i \in DOMAIN rows |->
         IF len_key = None THEN 1
         ELSE (IF rows[i].length < contextual_max_length[1] THEN 1 ELSE 0)]

\* mask.sum()
MaskSum(mask) == SumSeq(mask)

\* The contextual sub-loss student.py calls with mask=mask: the squared error
\* of the unmasked rows, summed.
ContextualSubLoss(rows, mask) ==
    <<SumSeq([i \in DOMAIN rows |-> mask[i] * SquaredError(rows[i])]), 1>>

\* torch.nn.functional.mse_loss(inputs * mask, targets * mask): the mean over
\* every element of the batch.
MaskedMSE(rows, mask) ==
    Frac(SumSeq([i \in DOMAIN rows |-> mask[i] * SquaredError(rows[i])]),
         Len(rows))

\* torch.mean(static_loss_outputs.pop("loss")) of a static sub-loss whose
\* per-row loss is the squared error to the static target.
StaticSubLossMean(rows) ==
    Frac(SumSeq([i \in DOMAIN rows |->
                     (rows[i].input - rows[i].dbow)
                         * (rows[i].input - rows[i].dbow)]),
         Len(rows))

\* outputs["loss"] += term: the addition is in place, so the result must be
\* castable to the dtype of outputs["loss"]; a floating-point term added to an
\* integer tensor raises RuntimeError.
InplaceAdd(loss, term) ==
    IF loss.dtype = "int64" THEN [loss EXCEPT !.raised = TRUE]
    ELSE [loss EXCEPT !.val = FracAdd(@, term)]

NoForward ==
    [kind |-> "none", keys |-> {}, loss |-> <<0, 1>>, mask |-> <<>>,
     contextual_loss |-> None, static_loss |-> None]

\* What forward leaves when outputs["loss"] += ... raises: no mapping is
\* returned; the locals computed so far are kept for inspection.
Raised(out, exc) == [out EXCEPT !.kind = exc, !.keys = {}]

\* The block `if self.contextual_loss is not None` of student.py.
student_ContextualBlock(cfg, rows, out, loss) ==
    LET mask == student_ContextualMask(rows, cfg.contextual_max_length)
        sub == ContextualSubLoss(rows, mask)
        weight_sum == MaskSum(mask)
        normed == IF weight_sum > 0 THEN FracDivInt(sub, weight_sum) ELSE sub
        term == IF cfg.lam # None THEN FracMul(normed, cfg.lam[1]) ELSE normed
        sum == InplaceAdd(loss, term)
        seen == [out EXCEPT !.mask = mask, !.contextual_loss = term,
                     !.keys = @ \cup {"contextual_mask", "contextual_loss"}
                                \cup (IF cfg.contextual_returns = "dict"
                                      THEN {"contextual_aux"} ELSE {})]
    IN IF sum.raised THEN <<Raised(seen, "RuntimeError"), loss>>
       ELSE <<[seen EXCEPT !.loss = sum.val], sum>>

\* The block `if self.contextual_loss is not None` of losses.py.
losses_ContextualBlock(cfg, rows, out, loss) ==
    LET mask == losses_ContextualMask(rows, cfg.len_key,
                                      cfg.contextual_max_length)
        mse == MaskedMSE(rows, mask)
        term == IF cfg.lam # None THEN FracMul(mse, cfg.lam[1]) ELSE mse
        sum == InplaceAdd(loss, term)
        seen == [out EXCEPT !.mask = mask, !.contextual_loss = term,
                     !.keys = @ \cup {"contextual_loss"}]
    IN IF sum.raised THEN <<Raised(seen, "RuntimeError"), loss>>
       ELSE <<[seen EXCEPT !.loss = sum.val], sum>>

\* The block `if self.static_loss is not None`; prefix is "static_" in
\* student.py and empty in losses.py.
StaticBlock(rows, out, loss, prefix) ==
    LET term == StaticSubLossMean(rows)
        sum == InplaceAdd(loss, term)
        seen == [out EXCEPT !.static_loss = term,
                     !.keys = @ \cup {prefix \o "aux", "static_loss"}]
    IN IF sum.raised THEN <<Raised(seen, "RuntimeError"), loss>>
       ELSE <<[seen EXCEPT !.loss = sum.val], sum>>

\* StaticContextualLoss.forward of student.py; outputs["loss"] starts as
\* torch.tensor(0, dtype=inputs.dtype).
student_StaticContextualLoss_forward(cfg, rows) ==
    LET start == <<[NoForward EXCEPT !.kind = "ok", !.keys = {"loss"}],
                   [dtype |-> "float32", val |-> <<0, 1>>, raised |-> FALSE]>>
        ctx == IF cfg.contextual
               THEN student_ContextualBlock(cfg, rows, start[1], start[2])
               ELSE start
        all == IF ctx[1].kind = "ok" /\ cfg.static
               THEN StaticBlock(rows, ctx[1], ctx[2], "static_")
               ELSE ctx
    IN all[1]

\* StaticContextualLoss.forward of losses.py; outputs["loss"] starts as
\* torch.tensor(0), an int64 tensor.
losses_StaticContextualLoss_forward(cfg, rows) ==
    LET start == <<[NoForward EXCEPT !.kind = "ok", !.keys = {"loss"}],
                   [dtype |-> "int64", val |-> <<0, 1>>, raised |-> FALSE]>>
        ctx == IF cfg.contextual
               THEN losses_ContextualBlock(cfg, rows, start[1], start[2])
               ELSE start
        all == IF ctx[1].kind = "ok" /\ cfg.static
               THEN StaticBlock(rows, ctx[1], ctx[2], "")
               ELSE ctx
    IN all[1]

StaticContextualLoss_forward(cfg, rows) ==
    IF cfg.impl = "student"
    THEN student_StaticContextualLoss_forward(cfg, rows)
    ELSE losses_StaticContextualLoss_forward(cfg, rows)

\* The constructor arguments.  student.py takes an optional maximal length
\* and always a length key; losses.py an integer maximal length and an
\* optional length key.
Threshold == 2
Lams == {None, Some(<<1, 2>>)}

SCLConfigs ==
    {[impl |-> "student", contextual |-> c, static |-> s, lam |-> l,
      contextual_max_length |-> t, len_key |-> Some("length"),
      contextual_returns |-> r] :
         c \in BOOLEAN, s \in BOOLEAN, l \in Lams, t \in {None, Some(Threshold)},
         r \in {"tensor", "dict"}}
    \cup
    {[impl |-> "losses", contextual |-> c, static |-> s, lam |-> l,
      contextual_max_length |-> Some(Threshold), len_key |-> k,
      contextual_returns |-> "tensor"] :
         c \in BOOLEAN, s \in BOOLEAN, l \in Lams, k \in {None, Some("length")}}

\* Lengths below, at and above the maximal length.
LossRows ==
    [length : (Threshold - 1)..(Threshold + 1), input : {0, 1}, sbert : {0, 1},
     dbow : {0, 1}]

LossBatches == UNION {[1..n -> LossRows] : n \in 1..MaxLossBatch}

SclInit ==
    /\ scl \in SCLConfigs
    /\ scl_in = <<>>
    /\ scl_out = NoForward

\* No StaticContextualLoss is in use.
SclIdle ==
    /\ scl = <<>>
    /\ scl_in = <<>>
    /\ scl_out = NoForward

\* StaticContextualLoss.forward(inputs, targets)
SclForward(rows) ==
    /\ scl_out.kind = "none"
    /\ scl_in' = rows
    /\ scl_out' = StaticContextualLoss_forward(scl, rows)
    /\ UNCHANGED scl
    /\ UNCHANGED <<winVars, cntVars, irVars, runVars, ccaVars, pvVars, taskVars>>

SclNext == \E rows \in LossBatches : SclForward(rows)

\* ------------------------------------------ CCALoss and RunningCCALoss
\* Views have one feature each, so that a mean is a number and a covariance
\* matrix a 1 x 1 matrix; a batch is a sequence of samples [x, y], x the row
\* of view 1 and y the row of view 2.  Numbers are exact fractions.
FracSub(x, y) == FracAdd(x, <<0 - y[1], y[2]>>)
FracAbs(x) == <<Abs(x[1]), x[2]>>
One == <<1, 1>>
Zero == <<0, 1>>

\* The element of a one-element set; The({e(v) : v \in {x}}) is e(x) with x
\* evaluated once.
The(S) == CHOOSE v \in S : TRUE

\* f as a sequence value (its elements evaluated).
AsSeq(f) == f \o <<>>

View1(batch) == AsSeq([i \in DOMAIN batch |-> <<batch[i].x, 1>>])
View2(batch) == AsSeq([i \in DOMAIN batch |-> <<batch[i].y, 1>>])

\* view.mean(dim=1)
ViewMean(view) == FracDivInt(FracSum(view), Len(view))

\* view - mean.unsqueeze(dim=1)
Centre(view, mean) == AsSeq([i \in DOMAIN view |-> FracSub(view[i], mean)])

\* regularization_constant (default of CCALoss.__init__)
RegConstant == <<1, 1000>>

\* CCALoss._covariance: (1 / (n - 1)) * x @ y.T, plus
\* regularization_constant * eye(m) when add_regularization.
CCALoss_covariance(x, y, add_regularization) ==
    LET n == Len(x)
        cov == FracDivInt(
                   FracSum(AsSeq([i \in DOMAIN x |-> FracMul(x[i], y[i])])),
                   n - 1)
    IN IF add_regularization THEN FracAdd(cov, RegConstant) ELSE cov

\* CCALoss._compute_covariance_matrices: <<sigma, sigma_1, sigma_2>>
CCALoss_compute_covariance_matrices(batch) ==
    LET view1_bar == Centre(View1(batch), ViewMean(View1(batch)))
        view2_bar == Centre(View2(batch), ViewMean(View2(batch)))
    IN <<CCALoss_covariance(view1_bar, view2_bar, FALSE),
         CCALoss_covariance(view1_bar, view1_bar, TRUE),
         CCALoss_covariance(view2_bar, view2_bar, TRUE)>>

\* RunningCCALoss.__init__: the buffers sigma1, sigma2, sigma, mu1, mu2 and
\* the plain attributes _beta_mu, _beta_sigma, _beta_mu_power,
\* _beta_sigma_power.
RunningCCALoss_init(beta_mu, beta_sigma) ==
    [sigma1 |-> One, sigma2 |-> One, sigma |-> Zero, mu1 |-> Zero,
     mu2 |-> Zero, beta_mu |-> beta_mu, beta_sigma |-> beta_sigma,
     beta_mu_power |-> One, beta_sigma_power |-> One]

\* old.detach() * beta + (1 - beta) * new
RunningCCALoss_running_update(beta, old, new) ==
    FracAdd(FracMul(old, beta), FracMul(FracSub(One, beta), new))

\* x / (1 - power)
BiasCorrected(x, power) ==
    LET d == FracSub(One, power) IN Frac(x[1] * d[2], x[2] * d[1])

\* RunningCCALoss._compute_means: the estimator afterwards and <<mu1, mu2>>.
\* (The first definition returns the means of the batch instead.)
RunningCCALoss_compute_means_batch_mean(self, view1, view2) ==
    LET after == [self EXCEPT
                      !.mu1 = RunningCCALoss_running_update(
                                  self.beta_mu, self.mu1, ViewMean(view1)),
                      !.mu2 = RunningCCALoss_running_update(
                                  self.beta_mu, self.mu2, ViewMean(view2)),
                      !.beta_mu_power = FracMul(@, self.beta_mu)]
    IN <<after, <<ViewMean(view1), ViewMean(view2)>>>>

RunningCCALoss_compute_means(self, view1, view2) ==
    LET after == [self EXCEPT
                      !.mu1 = RunningCCALoss_running_update(
                                  self.beta_mu, self.mu1, ViewMean(view1)),
                      !.mu2 = RunningCCALoss_running_update(
                                  self.beta_mu, self.mu2, ViewMean(view2)),
                      !.beta_mu_power = FracMul(@, self.beta_mu)]
    IN <<after, <<BiasCorrected(after.mu1, after.beta_mu_power),
                  BiasCorrected(after.mu2, after.beta_mu_power)>>>>

\* RunningCCALoss._compute_covariance_matrices: the estimator afterwards, the
\* means the batch was centred by and <<sigma, sigma1, sigma2>>.
RunningCCALoss_running_covariances(self, means, view1_bar, view2_bar) ==
    LET new_sigma == CCALoss_covariance(view1_bar, view2_bar, FALSE)
        new_sigma1 == CCALoss_covariance(view1_bar, view1_bar, FALSE)
        new_sigma2 == CCALoss_covariance(view2_bar, view2_bar, FALSE)
    IN The({<<after, means[2],
              <<BiasCorrected(after.sigma, after.beta_sigma_power),
                BiasCorrected(after.sigma1, after.beta_sigma_power),
                BiasCorrected(after.sigma2, after.beta_sigma_power)>>>> :
            after \in
                {[means[1] EXCEPT
                      !.sigma = RunningCCALoss_running_update(
                                    self.beta_sigma, self.sigma, new_sigma),
                      !.sigma1 = RunningCCALoss_running_update(
                                     self.beta_sigma, self.sigma1, new_sigma1),
                      !.sigma2 = RunningCCALoss_running_update(
                                     self.beta_sigma, self.sigma2, new_sigma2),
                      !.beta_sigma_power = FracMul(@, self.beta_sigma)]}})

RunningCCALoss_compute_covariance_matrices(self, batch) ==
    The({The({RunningCCALoss_running_covariances(self, means, bars[1], bars[2]) :
              bars \in {<<Centre(View1(batch), means[2][1]),
                          Centre(View2(batch), means[2][2])>>}}) :
         means \in {RunningCCALoss_compute_means(self, View1(batch),
                                                 View2(batch))}})

\* RunningCCALoss._return_computation: "covariance_mat" and "sigma2".
RunningCCALoss_return_computation(self) ==
    [covariance_mat |-> self.sigma,
     sigma2 |-> BiasCorrected(self.sigma2, self.beta_sigma_power)]

NoOutput ==
    [kind |-> "none", means |-> <<>>, triple |-> <<>>, covariance_mat |-> Zero,
     sigma2 |-> Zero, loss |-> Zero]

\* CCALoss.forward on a RunningCCALoss: the estimator afterwards and the
\* output.  The loss is a function of the covariance triple alone (the
\* eigendecompositions are not evaluated): `triple` stands for it.
RunningCCALoss_forward(self, batch) ==
    The({<<cov[1],
           [kind |-> "RunningCCALoss", means |-> cov[2], triple |-> cov[3],
            covariance_mat |->
                RunningCCALoss_return_computation(cov[1]).covariance_mat,
            sigma2 |-> RunningCCALoss_return_computation(cov[1]).sigma2,
            loss |-> Zero]>> :
         cov \in {RunningCCALoss_compute_covariance_matrices(self, batch)}})

\* state_dict(): the registered buffers.
RunningCCALoss_state_dict(self) ==
    [sigma1 |-> self.sigma1, sigma2 |-> self.sigma2, sigma |-> self.sigma,
     mu1 |-> self.mu1, mu2 |-> self.mu2]

\* load_state_dict(state) on an instance.
RunningCCALoss_load_state_dict(self, state) ==
    [self EXCEPT !.sigma1 = state.sigma1, !.sigma2 = state.sigma2,
                 !.sigma = state.sigma, !.mu1 = state.mu1, !.mu2 = state.mu2]

\* ------------------------------------------- StochasticDecorrelationLoss
\* The input has two features, x and y of a sample.  sigma is the symmetric
\* 2 x 2 matrix <<s11, s12, s22>>.
SqrtExact(n) == CHOOSE k \in 0..n : k * k = n
FracSqrt(x) == <<SqrtExact(x[1]), SqrtExact(x[2])>>

\* The biased variance BatchNorm1d normalises by.
BatchVar(view) ==
    LET bar == Centre(view, ViewMean(view))
    IN FracDivInt(
           FracSum(AsSeq([i \in DOMAIN view |-> FracMul(bar[i], bar[i])])),
           Len(view))

\* (1 / (m - 1)) * inputs.T @ inputs for inputs = batch_norm(inputs) in
\* training mode: entry (a, b).  batch_norm divides a feature by
\* sqrt(var + eps); eps is neglected against a non-zero variance, and a
\* feature of variance zero is normalised to zeros.
NormalisedCovariance(a, b) ==
    IF BatchVar(a) = Zero \/ BatchVar(b) = Zero THEN Zero
    ELSE LET abar == Centre(a, ViewMean(a))
             bbar == Centre(b, ViewMean(b))
             s == FracSum(AsSeq([i \in DOMAIN a |->
                                     FracMul(abar[i], bbar[i])]))
             d == FracSqrt(FracMul(BatchVar(a), BatchVar(b)))
         IN FracDivInt(Frac(s[1] * d[2], s[2] * d[1]), Len(a) - 1)

StochasticDecorrelationLoss_init(alpha) ==
    [sigma |-> <<Zero, Zero, Zero>>, alpha |-> alpha, norm_factor |-> Zero]

\* StochasticDecorrelationLoss.forward: the estimator afterwards and the loss.
StochasticDecorrelationLoss_loss(self, sigma, norm_factor) ==
    The({<<[self EXCEPT !.sigma = sigma, !.norm_factor = norm_factor],
           [NoOutput EXCEPT
                !.kind = "StochasticDecorrelationLoss",
                !.loss = FracSub(
                    FracAdd(FracAdd(apprx_sigma[1], apprx_sigma[3]),
                            FracAdd(apprx_sigma[2], apprx_sigma[2])),
                    FracAdd(apprx_sigma[1], apprx_sigma[3]))]>> :
         apprx_sigma \in
             {AsSeq([k \in 1..3 |->
                         FracAbs(Frac(sigma[k][1] * norm_factor[2],
                                      sigma[k][2] * norm_factor[1]))])}})

StochasticDecorrelationLoss_forward(self, batch) ==
    The({StochasticDecorrelationLoss_loss(self, acc[1], acc[2]) :
         acc \in
             {<<<<FracAdd(FracMul(self.alpha, self.sigma[1]),
                          NormalisedCovariance(View1(batch), View1(batch))),
                  FracAdd(FracMul(self.alpha, self.sigma[2]),
                          NormalisedCovariance(View1(batch), View2(batch))),
                  FracAdd(FracMul(self.alpha, self.sigma[3]),
                          NormalisedCovariance(View2(batch), View2(batch)))>>,
                FracAdd(FracMul(self.alpha, self.norm_factor), One)>>}})

\* state_dict(): the registered buffer (the buffers of batch_norm, which a
\* forward in training mode does not read, are left out).
StochasticDecorrelationLoss_state_dict(self) == [sigma |-> self.sigma]

StochasticDecorrelationLoss_load_state_dict(self, state) ==
    [self EXCEPT !.sigma = state.sigma]

\* -------------------------------------------- running estimators: state
RunningClasses == {"RunningCCALoss", "StochasticDecorrelationLoss"}

\* beta_mu, beta_sigma of RunningCCALoss and alpha of
\* StochasticDecorrelationLoss.
Betas == {Zero, <<1, 2>>}
Alphas == {<<1, 2>>, <<4, 5>>}

\* Batches of SampleCounts samples with features 0 or 1; the statistics do
\* not depend on the order of the samples, which are listed in one order.
SampleCounts == {2, 3}
Samples == [x : {0, 1}, y : {0, 1}]
SampleKey(s) == 2 * s.x + s.y
RunBatches ==
    {b \in UNION {[1..n -> Samples] : n \in SampleCounts} :
         \A i \in 1..(Len(b) - 1) : SampleKey(b[i]) <= SampleKey(b[i + 1])}

\* The instance as constructed.
RunFresh(self) ==
    IF run_class = "RunningCCALoss"
    THEN RunningCCALoss_init(self.beta_mu, self.beta_sigma)
    ELSE StochasticDecorrelationLoss_init(self.alpha)

RunForwardOf(self, batch) ==
    IF run_class = "RunningCCALoss"
    THEN RunningCCALoss_forward(self, batch)
    ELSE StochasticDecorrelationLoss_forward(self, batch)

RunInit ==
    /\ run_class \in RunningClasses
    /\ run \in
           IF run_class = "RunningCCALoss"
           THEN {RunningCCALoss_init(bm, bs) : bm \in Betas, bs \in Betas}
           ELSE {StochasticDecorrelationLoss_init(a) : a \in Alphas}
    /\ resumed = <<>>
    /\ run_batch = <<>>
    /\ run_out = NoOutput
    /\ resumed_out = NoOutput
    /\ calls = 0

\* No running estimator is in use.
RunIdle ==
    /\ run_class = "none"
    /\ run = <<>>
    /\ resumed = <<>>
    /\ run_batch = <<>>
    /\ run_out = NoOutput
    /\ resumed_out = NoOutput
    /\ calls = 0

\* forward(batch) on the estimator and, once there is one, on the instance
\* that was restored from its state_dict.
RunForward(batch) ==
    /\ calls < MaxCalls
    /\ \E res \in {RunForwardOf(run, batch)} :
           /\ run' = res[1]
           /\ run_out' = res[2]
    /\ IF resumed = <<>>
       THEN UNCHANGED <<resumed, resumed_out>>
       ELSE \E res \in {RunForwardOf(resumed[1], batch)} :
                /\ resumed' = <<res[1]>>
                /\ resumed_out' = res[2]
    /\ run_batch' = batch
    /\ calls' = calls + 1
    /\ UNCHANGED run_class
    /\ UNCHANGED <<winVars, cntVars, irVars, sclVars, ccaVars, pvVars, taskVars>>

\* state_dict() of the estimator is loaded into a freshly constructed
\* instance.
SaveLoad ==
    /\ resumed = <<>>
    /\ calls < MaxCalls
    /\ resumed' =
           <<IF run_class = "RunningCCALoss"
             THEN RunningCCALoss_load_state_dict(
                      RunFresh(run), RunningCCALoss_state_dict(run))
             ELSE StochasticDecorrelationLoss_load_state_dict(
                      RunFresh(run), StochasticDecorrelationLoss_state_dict(run))>>
    /\ UNCHANGED <<run_class, run, run_batch, run_out, resumed_out, calls>>
    /\ UNCHANGED <<winVars, cntVars, irVars, sclVars, ccaVars, pvVars, taskVars>>

RunNext ==
    \/ \E batch \in RunBatches : RunForward(batch)
    \/ SaveLoad

\* ------------------------------------------------ CCALoss.forward: shapes
\* A finite number; which one is not modelled.
Finite == [Value(0, 1) EXCEPT !.kind = "finite"]

\* The outcome of CCALoss.forward(view1, view2) for views of `samples` rows
\* and view1_dim, view2_dim columns.  _covariance divides 1 by samples - 1;
\* the same-view covariances are regularised, so that no eigenvalue is
\* dropped and A.T @ A is a view2_dim x view2_dim matrix of finite entries;
\* topk(output_dim) raises when it has fewer than output_dim eigenvalues.
CCALoss_forward(samples, view1_dim, view2_dim, output_dim) ==
    IF samples = 1 THEN Raise("ZeroDivisionError")
    ELSE IF output_dim = None THEN Finite
    ELSE IF output_dim[1] > view2_dim THEN Raise("RuntimeError")
    ELSE Finite

NoCall ==
    [samples |-> 0, view1_dim |-> 0, view2_dim |-> 0, output_dim |-> None,
     result |-> NoResult]

OutputDims == {None} \cup {Some(d) : d \in 1..MaxDim}

CcaInit == cca_call = NoCall

\* No CCALoss is in use.
CcaIdle == cca_call = NoCall

\* CCALoss(output_dimension=output_dim).forward(view1, view2)
CCALossForward(samples, view1_dim, view2_dim, output_dim) ==
    /\ cca_call' =
           [samples |-> samples, view1_dim |-> view1_dim,
            view2_dim |-> view2_dim, output_dim |-> output_dim,
            result |-> CCALoss_forward(samples, view1_dim, view2_dim,
                                       output_dim)]
    /\ UNCHANGED <<winVars, cntVars, irVars, sclVars, runVars, pvVars, taskVars>>

CcaNext ==
    \E samples \in 0..MaxSamples, view1_dim \in 1..MaxDim,
       view2_dim \in 1..MaxDim, output_dim \in OutputDims :
        CCALossForward(samples, view1_dim, view2_dim, output_dim)

\* --------------------------------- CCALoss.forward: every singular value
\* A is a 2 x 2 matrix <<row 1, row 2>> of integers (its entries in a common
\* unit).  A sum sqrt(x) + sqrt(y) of square roots of non-negative integers
\* is kept exactly as the pair of x + y and x * y: its square is
\* (x + y) + 2 * sqrt(x * y).
Matrices == [1..2 -> [1..2 -> (0 - MaxEntry)..MaxEntry]]

\* A.T @ A
Gram(A) ==
    <<<<A[1][1] * A[1][1] + A[2][1] * A[2][1],
        A[1][1] * A[1][2] + A[2][1] * A[2][2]>>,
      <<A[1][2] * A[1][1] + A[2][2] * A[2][1],
        A[1][2] * A[1][2] + A[2][2] * A[2][2]>>>>

SqrtSum(x, y) == [sum |-> x + y, prod |-> x * y]

\* torch.trace(torch.sqrt(A.T @ A)): torch.sqrt is taken element by element,
\* trace adds the square roots of the diagonal.
CCALoss_trace_sqrt(A) == SqrtSum(Gram(A)[1][1], Gram(A)[2][2])

\* CCALoss(output_dimension=None).forward from the matrix A on: the
\* correlation corr; the loss is -corr.
CCALossAllDims(A) ==
    /\ cca_call' = [A |-> A, corr |-> CCALoss_trace_sqrt(A)]
    /\ UNCHANGED <<winVars, cntVars, irVars, sclVars, runVars, pvVars, taskVars>>

AllDimsNext == \E A \in Matrices : CCALossAllDims(A)

\* ------------------------------ CCALoss.forward: fixed output dimension
\* sigma_1, sigma_2 and sigma in the eigenbases of sigma_1 and sigma_2: D1 and
\* D2 are the eigenvalues of sigma_1 and sigma_2, and sigma is diagonal there
\* with entries s (s[j] pairs eigenvector j of view 1 with eigenvector j of
\* view 2), so that A.T @ A is diagonal and its eigenvalues are its entries.
EigenDims == {1, 2}
EigenValues == {<<1, 10>>, One, <<4, 1>>}
Epsilons == {<<1, 2000>>, <<1, 2>>, <<2, 1>>}
SigmaEntries == {0, 1, 2}

\* torch.gt(D, self._eps).nonzero()[:, 0]
CCALoss_large_eigh_idxs(D, eps) == {i \in DOMAIN D : FracLess(eps, D[i])}

\* The diagonal of A.T @ A for A = sigma_1_root_inv @ sigma @ sigma_2_root_inv
\* built from the eigenpairs that were kept.
CCALoss_A_times_A(D1, D2, s, eps) ==
    AsSeq([j \in DOMAIN D2 |->
               IF j \in CCALoss_large_eigh_idxs(D1, eps)
                        \cap CCALoss_large_eigh_idxs(D2, eps)
               THEN Frac(s[j] * s[j] * D1[j][2] * D2[j][2],
                         D1[j][1] * D2[j][1])
               ELSE Zero])

\* torch.linalg.eigvalsh(A_times_A + reg_constant * eye)
CCALoss_eigenvalues(D1, D2, s, eps) ==
    LET diag == CCALoss_A_times_A(D1, D2, s, eps)
    IN AsSeq([j \in DOMAIN diag |-> FracAdd(diag[j], RegConstant)])

\* torch.where(eigenvalues > eps, eigenvalues, eps)
\* (The first definition drops the eigenvalues that are not above eps.)
CCALoss_where_removed(eigenvalues, eps) ==
    SelectSeq(eigenvalues, LAMBDA e : FracLess(eps, e))

CCALoss_where(eigenvalues, eps) ==
    AsSeq([j \in DOMAIN eigenvalues |->
               IF FracLess(eps, eigenvalues[j]) THEN eigenvalues[j] ELSE eps])

\* values.topk(k)[0]: the k largest, largest first.
RECURSIVE TopK(_, _)
TopK(vals, k) ==
    IF k = 0 THEN <<>>
    ELSE LET i == CHOOSE i \in DOMAIN vals :
                      \A j \in DOMAIN vals : ~FracLess(vals[i], vals[j])
         IN <<vals[i]>>
                \o TopK(SubSeq(vals, 1, i - 1)
                            \o SubSeq(vals, i + 1, Len(vals)), k - 1)

\* The branch of CCALoss.forward for an output dimension: the loss is minus
\* the sum of the square roots of `terms`.
CCALoss_forward_fixed(D1, D2, s, eps, output_dim) ==
    LET eigenvalues == CCALoss_eigenvalues(D1, D2, s, eps)
        offered == CCALoss_where(eigenvalues, eps)
    IN [D1 |-> D1, D2 |-> D2, s |-> s, eps |-> eps, output_dim |-> output_dim,
        kept1 |-> CCALoss_large_eigh_idxs(D1, eps),
        kept2 |-> CCALoss_large_eigh_idxs(D2, eps),
        eigenvalues |-> eigenvalues,
        offered |-> offered,
        kind |-> IF output_dim > Len(offered) THEN "RuntimeError" ELSE "ok",
        terms |-> IF output_dim > Len(offered) THEN <<>>
                  ELSE TopK(offered, output_dim)]

CCALossFixedDim(D1, D2, s, eps, output_dim) ==
    /\ cca_call = NoCall
    /\ cca_call' = CCALoss_forward_fixed(D1, D2, s, eps, output_dim)
    /\ UNCHANGED <<winVars, cntVars, irVars, sclVars, runVars, pvVars, taskVars>>

FixedDimNext ==
    \E n1 \in EigenDims, n2 \in EigenDims :
        \E D1 \in [1..n1 -> EigenValues], D2 \in [1..n2 -> EigenValues],
           s \in [1..Min2(n1, n2) -> SigmaEntries], eps \in Epsilons,
           output_dim \in 1..MaxDim :
            CCALossFixedDim(D1, D2, s, eps, output_dim)

\* Nothing of the losses is in use.
LossIdle == SclIdle /\ RunIdle /\ CcaIdle

\* ------------------------------- ParagraphVectorEmbed.train: its callbacks
\* A score is a float: a fraction, NaNFrac, or one of the infinities.
PosInf == <<1, 0>>
NegInf == <<0 - 1, 0>>

\* x < y on floats: false whenever one of them is NaN.
FloatLess(x, y) ==
    IF x = NaNFrac \/ y = NaNFrac THEN FALSE
    ELSE IF x = y THEN FALSE
    ELSE IF x = NegInf \/ y = PosInf THEN TRUE
    ELSE IF x = PosInf \/ y = NegInf THEN FALSE
    ELSE FracLess(x, y)

\* EvaluateIRMetrics.__init__
EvaluateIRMetrics_init(eval_every, save_best_path, higher_is_better) ==
    [eval_every |-> eval_every, save_best_path |-> save_best_path,
     higher_is_better |-> higher_is_better, epoch |-> 0,
     best_score |-> IF higher_is_better THEN NegInf ELSE PosInf]

\* EvaluateIRMetrics._is_best
EvaluateIRMetrics_is_best(self, score) ==
    IF self.higher_is_better
    THEN FloatLess(self.best_score, score)
    ELSE FloatLess(score, self.best_score)

\* EvaluateIRMetrics.evaluate, the decisive metric being `score`: the
\* callback afterwards and whether the baseline was saved.
EvaluateIRMetrics_evaluate(self, score) ==
    IF self.save_best_path # None /\ EvaluateIRMetrics_is_best(self, score)
    THEN [self |-> [self EXCEPT !.best_score = score], evaluated |-> TRUE,
          saved |-> TRUE]
    ELSE [self |-> self, evaluated |-> TRUE, saved |-> FALSE]

\* EvaluateIRMetrics.on_epoch_end; `score` is what an evaluation would find.
EvaluateIRMetrics_on_epoch_end(self, score) ==
    LET at == [self EXCEPT !.epoch = @ + 1]
    IN IF at.epoch % at.eval_every = 0
       THEN EvaluateIRMetrics_evaluate(at, score)
       ELSE [self |-> at, evaluated |-> FALSE, saved |-> FALSE]

\* CheckpointSave.__init__
CheckpointSave_init(epoch_checkpoints) ==
    [epoch_checkpoints |-> epoch_checkpoints, epoch |-> 0]

\* CheckpointSave.on_epoch_end: the callback afterwards and the epoch number
\* in the name of the checkpoint it wrote, if it wrote one.
CheckpointSave_on_epoch_end(self) ==
    [self |-> [self EXCEPT !.epoch = @ + 1],
     after_epoch |-> IF self.epoch \in self.epoch_checkpoints
                     THEN Some(self.epoch) ELSE None]

\* The decisive metric of an evaluation.
Scores == {<<1, 4>>, <<1, 2>>, <<3, 4>>, NaNFrac}

EvalEverys == 1..MaxEvalEvery

\* eval_every of the callback that train() constructs
TrainEvalEvery == 10

\* epochs of a module; save_at_epochs
ModuleEpochs == {2, MaxEpochs}
CheckpointChoices == {{0}, {1, 2}, {2, MaxEpochs}}

\* train() is not running.
NoTraining ==
    [module_epochs |-> <<>>, module |-> 0, completed |-> 0, finished |-> FALSE,
     log_dir |-> None, model_dir |-> None, save_best |-> FALSE]

\* Every callback of the list is told, in the order of the list, that an
\* epoch has ended; module `module` has completed `completed` epochs by then.
RunCallbacks(score, module, completed) ==
    /\ epoch_ends' = epoch_ends + 1
    /\ IF ev = None
       THEN UNCHANGED <<ev, evaluated, best_saved>>
       ELSE \E res \in {EvaluateIRMetrics_on_epoch_end(ev[1], score)} :
                /\ ev' = Some(res.self)
                /\ evaluated' =
                       IF res.evaluated
                       THEN Append(evaluated,
                                   [call |-> epoch_ends + 1, score |-> score,
                                    saved |-> res.saved])
                       ELSE evaluated
                /\ best_saved' =
                       IF res.saved
                       THEN Some([call |-> epoch_ends + 1, score |-> score])
                       ELSE best_saved
    /\ IF ck = None
       THEN UNCHANGED <<ck, written>>
       ELSE \E res \in {CheckpointSave_on_epoch_end(ck[1])} :
                /\ ck' = Some(res.self)
                /\ written' =
                       IF res.after_epoch = None
                       THEN written
                       ELSE Append(written,
                                   [after_epoch |-> res.after_epoch[1],
                                    module |-> module,
                                    completed |-> completed])

\* An EvaluateIRMetrics callback on its own, constructed with any arguments.
EvaluateInit ==
    /\ ev \in {Some(EvaluateIRMetrics_init(e, p, h)) :
                   e \in EvalEverys, p \in {None, Some("model_dir")},
                   h \in BOOLEAN}
    /\ ck = None
    /\ training = NoTraining
    /\ epoch_ends = 0
    /\ evaluated = <<>>
    /\ best_saved = None
    /\ written = <<>>

\* on_epoch_end of the callbacks, outside train().
OnEpochEnd(score) ==
    /\ training = NoTraining
    /\ epoch_ends < MaxEpochEnds
    /\ RunCallbacks(score, 0, 0)
    /\ UNCHANGED training
    /\ UNCHANGED <<winVars, cntVars, irVars, lossVars, taskVars>>

EvaluateNext == \E score \in Scores : OnEpochEnd(score)

\* ParagraphVectorEmbed.train up to its loop: the callbacks are constructed.
TrainInit ==
    /\ \E log_dir \in {None, Some("log_dir")},
          model_dir \in {None, Some("model_dir")},
          validation \in BOOLEAN, save_best \in BOOLEAN,
          save_at_epochs \in {None} \cup {Some(c) : c \in CheckpointChoices},
          module_epochs \in [1..1 -> ModuleEpochs] \cup [1..2 -> ModuleEpochs] :
        /\ training = [module_epochs |-> module_epochs, module |-> 1,
                       completed |-> 0, finished |-> FALSE,
                       log_dir |-> log_dir, model_dir |-> model_dir,
                       save_best |-> save_best]
        /\ ev = IF log_dir # None /\ validation
                THEN Some(EvaluateIRMetrics_init(
                              TrainEvalEvery,
                              IF save_best /\ model_dir # None
                              THEN model_dir ELSE None,
                              FALSE))
                ELSE None
        /\ ck = IF model_dir # None /\ save_at_epochs # None
                THEN Some(CheckpointSave_init(save_at_epochs[1]))
                ELSE None
    /\ epoch_ends = 0
    /\ evaluated = <<>>
    /\ best_saved = None
    /\ written = <<>>

\* module.train: one more epoch of the module being trained has completed
\* and the callbacks are run.
TrainEpoch(score) ==
    /\ training.module \in DOMAIN training.module_epochs
    /\ training.completed < training.module_epochs[training.module]
    /\ training' = [training EXCEPT !.completed = @ + 1]
    /\ RunCallbacks(score, training.module, training.completed + 1)
    /\ UNCHANGED <<winVars, cntVars, irVars, lossVars, taskVars>>

\* module.train returns: the loop of train() goes on to the next module.
TrainNextModule ==
    /\ training.module \in DOMAIN training.module_epochs
    /\ training.completed = training.module_epochs[training.module]
    /\ training' = [training EXCEPT !.module = @ + 1, !.completed = 0]
    /\ UNCHANGED <<ev, ck, epoch_ends, evaluated, best_saved, written>>
    /\ UNCHANGED <<winVars, cntVars, irVars, lossVars, taskVars>>

\* The end of train(): the model is saved when it should be and no
\* validation metrics are known.
TrainReturn ==
    /\ training.module = Len(training.module_epochs) + 1
    /\ ~training.finished
    /\ training' = [training EXCEPT !.finished = TRUE]
    /\ best_saved' =
           IF training.save_best /\ training.model_dir # None
                  /\ training.log_dir = None
           THEN Some([call |-> epoch_ends, score |-> NaNFrac])
           ELSE best_saved
    /\ UNCHANGED <<ev, ck, epoch_ends, evaluated, written>>
    /\ UNCHANGED <<winVars, cntVars, irVars, lossVars, taskVars>>

TrainNext ==
    \/ \E score \in Scores : TrainEpoch(score)
    \/ TrainNextModule
    \/ TrainReturn

\* Neither train() nor a callback is in use.
PvIdle ==
    /\ ev = None
    /\ ck = None
    /\ training = NoTraining
    /\ epoch_ends = 0
    /\ evaluated = <<>>
    /\ best_saved = None
    /\ written = <<>>

\* ------------------------------------------------ HFTask._create_splits
\* A DatasetDict: the names of its splits in the order of the mapping and
\* the rows of each split.  A row is known by the split and the index it
\* was retrieved at; its id is None until ids are added.
SplitRow(name, index) == [split |-> name, index |-> index, id |-> None]

DatasetDict(names, sizes) ==
    [names |-> names,
     rows |-> [name \in Range(names) |->
                   AsSeq([i \in 1..sizes[name] |-> SplitRow(name, i - 1)])]]

\* split.select(indices), the indices counted from 1
Select(split, indices) ==
    AsSeq([i \in DOMAIN indices |-> split[indices[i]]])

\* The number of rows of the first k splits.
RECURSIVE RowsBefore(_, _)
RowsBefore(ds, k) ==
    IF k = 0 THEN 0
    ELSE RowsBefore(ds, k - 1) + Len(ds.rows[ds.names[k]])

\* _create_splits, lines 62-70: split.map(map_fn, with_indices=True) on every
\* split, begin_id being the number of rows of the splits before it.
HFTask_add_ids(ds) ==
    [ds EXCEPT
         !.rows = [name \in DOMAIN ds.rows |->
                       LET k == CHOOSE j \in DOMAIN ds.names : ds.names[j] = name
                           begin_id == RowsBefore(ds, k - 1)
                       IN AsSeq([idx \in DOMAIN ds.rows[name] |->
                                     [ds.rows[name][idx] EXCEPT
                                          !.id = Some((idx - 1) + begin_id)]])]]

\* math.floor(source_len * fraction), the fraction being exact in binary
FloorOfProduct(source_len, fraction) ==
    (source_len * fraction[1]) \div fraction[2]

\* _create_splits, lines 77-91: the split named validation_source is divided
\* along the shuffled indices.  (The first definition leaves the last
\* validation index in the source as well.)
HFTask_new_validation_overlapping(ds, validation_source, fraction, all_indices) ==
    LET source == ds.rows[validation_source]
        source_len == Len(source)
        val_len == FloorOfProduct(source_len, fraction)
        val_indices == SubSeq(all_indices, 1, val_len)
        new_source_indicies ==
            SubSeq(all_indices, IF val_len > 0 THEN val_len ELSE 1, source_len)
    IN [names |-> Append(ds.names, "validation"),
        rows |-> [name \in DOMAIN ds.rows \cup {"validation"} |->
                      IF name = "validation"
                      THEN Select(source, val_indices)
                      ELSE IF name = validation_source
                      THEN Select(source, new_source_indicies)
                      ELSE ds.rows[name]]]

HFTask_new_validation(ds, validation_source, fraction, all_indices) ==
    LET source == ds.rows[validation_source]
        source_len == Len(source)
        val_len == FloorOfProduct(source_len, fraction)
        val_indices == SubSeq(all_indices, 1, val_len)
        new_source_indicies == SubSeq(all_indices, val_len + 1, source_len)
    IN [names |-> Append(ds.names, "validation"),
        rows |-> [name \in DOMAIN ds.rows \cup {"validation"} |->
                      IF name = "validation"
                      THEN Select(source, val_indices)
                      ELSE IF name = validation_source
                      THEN Select(source, new_source_indicies)
                      ELSE ds.rows[name]]]

\* data_size_limit is None, [int |-> n] or [dict |-> pairs <<name, limit>>].
\* dict.get(name, None)
LimitOf(pairs, name) ==
    IF \E p \in pairs : p[1] = name
    THEN Some((CHOOSE p \in pairs : p[1] = name)[2])
    ELSE None

\* HFTask._shorten_splits: the limit the task holds afterwards and the
\* dataset.
HFTask_shorten_splits(data_size_limit, ds) ==
    IF data_size_limit = None
    THEN [data_size_limit |-> None, dataset |-> ds]
    ELSE LET pairs == IF "int" \in DOMAIN data_size_limit
                      THEN {<<name, data_size_limit.int>> :
                                name \in Range(ds.names)}
                      ELSE data_size_limit.dict
         IN [data_size_limit |-> [dict |-> pairs],
             dataset |->
                 [ds EXCEPT
                      !.rows = [name \in DOMAIN ds.rows |->
                                    LET limit == LimitOf(pairs, name)
                                    IN IF limit # None
                                            /\ Len(ds.rows[name]) > limit[1]
                                       THEN SubSeq(ds.rows[name], 1, limit[1])
                                       ELSE ds.rows[name]]]]

\* The validation split is made by _create_splits.
MakesValidation(self, ds) ==
    /\ "validation" \notin Range(ds.names)
    /\ self.validation_source # None
    /\ self.validation_fraction # None

\* HFTask._create_splits(dataset), np.random.shuffle giving all_indices: the
\* outcome, the task's data_size_limit afterwards and the splits.
HFTask_create_splits(self, ds, all_indices) ==
    LET with_ids == IF self.add_ids THEN HFTask_add_ids(ds) ELSE ds
    IN IF MakesValidation(self, ds)
            /\ self.validation_source[1] \notin Range(ds.names)
       THEN [kind |-> "KeyError", data_size_limit |-> self.data_size_limit,
             names |-> <<>>, rows |-> <<>>]
       ELSE LET divided ==
                    IF MakesValidation(self, ds)
                    THEN HFTask_new_validation(
                             with_ids, self.validation_source[1],
                             self.validation_fraction[1], all_indices)
                    ELSE with_ids
                short == HFTask_shorten_splits(self.data_size_limit, divided)
            IN [kind |-> "ok", data_size_limit |-> short.data_size_limit,
                names |-> short.dataset.names, rows |-> short.dataset.rows]

\* The datasets, the constructor arguments and the shuffles.
SplitNameLists ==
    {<<"train", "test">>, <<"train", "validation", "test">>, <<"train">>}
DatasetDicts ==
    UNION {{DatasetDict(names, sizes) :
                sizes \in [Range(names) -> 0..MaxSplitRows]} :
           names \in SplitNameLists}
Fractions == {Zero, <<1, 4>>, <<1, 2>>, One}
SizeLimits ==
    {None} \cup {[int |-> n] : n \in 1..2}
        \cup {[dict |-> {<<"validation", 1>>}]}
Shuffles(n) == {p \in InjSeqs(1..n) : Len(p) = n}

NoSplits == [kind |-> "none", names |-> <<>>, rows |-> <<>>]

\* The task as constructed; `retrieved` is what _retrieve_dataset returns.
TaskInit ==
    /\ task \in [add_ids : BOOLEAN,
                 validation_fraction : {None} \cup {Some(f) : f \in Fractions},
                 validation_source : {None, Some("train"), Some("test")},
                 data_size_limit : SizeLimits]
    /\ retrieved \in DatasetDicts
    /\ splits = NoSplits

\* No task is in use.
TaskIdle ==
    /\ task = None
    /\ retrieved = None
    /\ splits = NoSplits

\* The length of the split that np.random.shuffle permutes the indices of.
ShuffledLen ==
    IF MakesValidation(task, retrieved)
           /\ task.validation_source[1] \in Range(retrieved.names)
    THEN Len(retrieved.rows[task.validation_source[1]])
    ELSE 0

\* HFTask.splits, read for the first time: _retrieve_dataset and
\* _create_splits.
Splits(all_indices) ==
    /\ splits.kind = "none"
    /\ \E res \in {HFTask_create_splits(task, retrieved, all_indices)} :
           /\ splits' = [kind |-> res.kind, names |-> res.names,
                         rows |-> res.rows]
           /\ task' = [task EXCEPT !.data_size_limit = res.data_size_limit]
    /\ UNCHANGED retrieved
    /\ UNCHANGED <<winVars, cntVars, irVars, lossVars, pvVars>>

TaskNext == \E all_indices \in Shuffles(ShuffledLen) : Splits(all_indices)

\* --------------------------------------------------------- specifications
\* Updates, reads and resets of independent replicas.
UpdateNext ==
    \/ \E w \in Workers, n \in 0..MaxBatch, scalar \in BOOLEAN :
           SingleUpdate(w, n, scalar)
    \/ \E w \in Workers : SingleCompute(w)
    \/ \E w \in Workers, n \in 0..MaxBatch : CCAUpdate(w, n)
    \/ \E w \in Workers, fit_ok \in BOOLEAN : CCACompute(w, fit_ok)
    \/ \E w \in Workers : Reset(w)

InitWindowed == WinInit /\ CntIdle /\ IRIdle /\ LossIdle
    /\ PvIdle /\ TaskIdle

SpecUpdates == InitWindowed /\ [][UpdateNext]_vars

\* Updates of a WindowedCCAMetric with views of any two row counts, and reads.
ViewsNext ==
    \/ \E w \in Workers, n1 \in 0..MaxBatch, n2 \in 0..MaxBatch :
           CCAUpdateViews(w, n1, n2)
    \/ \E w \in Workers, fit_ok \in BOOLEAN : CCACompute(w, fit_ok)
    \/ \E w \in Workers : Reset(w)

SpecViews == InitWindowed /\ [][ViewsNext]_vars

\* Updates interleaved with merges of replicas.
MergeNext ==
    \/ \E w \in Workers, n \in 0..MaxBatch, scalar \in BOOLEAN :
           SingleUpdate(w, n, scalar)
    \/ \E w \in Workers : \E others \in InjSeqs(Workers \ {w}) :
           SingleMergeState(w, others)
    \/ \E w \in Workers, n \in 0..MaxBatch : CCAUpdate(w, n)
    \/ \E w \in Workers : \E others \in InjSeqs(Workers \ {w}) :
           CCAMergeState(w, others)

SpecMerges == InitWindowed /\ [][MergeNext]_vars

\* The lists merge_state is called with: some of the other replicas in any
\* order, or the metrics that are not replicas in either order.
MergeLists(w) ==
    InjSeqs(Workers \ {w})
        \cup {l \in InjSeqs(OtherMetrics) : Len(l) = Cardinality(OtherMetrics)}

\* Updates of single-value replicas interleaved with merges of lists of
\* several metrics.
MergeOrderNext ==
    \/ \E w \in Workers, n \in 0..MaxBatch, scalar \in BOOLEAN :
           SingleUpdate(w, n, scalar)
    \/ \E w \in Workers : \E others \in MergeLists(w) :
           SingleMergeState(w, others)

SpecMergeOrder == InitWindowed /\ [][MergeOrderNext]_vars

\* Count-based metrics: independent updates, then one merge.
InitCounts == WinIdle /\ CntInit /\ IRIdle /\ LossIdle
    /\ PvIdle /\ TaskIdle

SpecCounts == InitCounts /\ [][CntNext]_vars

\* Accessor-wrapped metrics: independent updates, then one merge.
InitAccessor == WinIdle /\ AccInit /\ IRIdle /\ LossIdle
    /\ PvIdle /\ TaskIdle

SpecAccessor == InitAccessor /\ [][AccNext]_vars

\* RetrievalEval.__call__ on a test split.
InitRetrieval == WinIdle /\ CntIdle /\ RetrievalInit /\ LossIdle
    /\ PvIdle /\ TaskIdle

SpecRetrieval == InitRetrieval /\ [][RetrievalNext]_vars

\* _evaluate_ir_metrics on an iterable of pairs.
InitIRMetrics == WinIdle /\ CntIdle /\ IRInit /\ LossIdle
    /\ PvIdle /\ TaskIdle

SpecIRMetrics == InitIRMetrics /\ [][IRNext]_vars

\* StaticContextualLoss.forward on batches.
InitLoss == WinIdle /\ CntIdle /\ IRIdle /\ SclInit /\ RunIdle /\ CcaIdle
    /\ PvIdle /\ TaskIdle

SpecLoss == InitLoss /\ [][SclNext]_vars

\* A running estimator under forward calls, saved and restored once.
InitRunning == WinIdle /\ CntIdle /\ IRIdle /\ SclIdle /\ RunInit /\ CcaIdle
    /\ PvIdle /\ TaskIdle

SpecRunning == InitRunning /\ [][RunNext]_vars

\* CCALoss.forward on views of every shape.
InitCCALoss == WinIdle /\ CntIdle /\ IRIdle /\ SclIdle /\ RunIdle /\ CcaInit
    /\ PvIdle /\ TaskIdle

SpecCCALoss == InitCCALoss /\ [][CcaNext]_vars

\* CCALoss.forward without an output dimension, on every matrix A.
SpecAllDims == InitCCALoss /\ [][AllDimsNext]_vars

\* CCALoss.forward with an output dimension, on every spectrum.
SpecFixedDim == InitCCALoss /\ [][FixedDimNext]_vars

\* An EvaluateIRMetrics callback under on_epoch_end calls.
InitEvaluate == WinIdle /\ CntIdle /\ IRIdle /\ LossIdle
    /\ EvaluateInit /\ TaskIdle

SpecEvaluate == InitEvaluate /\ [][EvaluateNext]_vars

\* ParagraphVectorEmbed.train with its callbacks.
InitTrain == WinIdle /\ CntIdle /\ IRIdle /\ LossIdle
    /\ TrainInit /\ TaskIdle

SpecTrain == InitTrain /\ [][TrainNext]_vars

\* HFTask.splits on every dataset.
InitTask == WinIdle /\ CntIdle /\ IRIdle /\ LossIdle
    /\ PvIdle /\ TaskInit

SpecTask == InitTask /\ [][TaskNext]_vars

\* ------------------------------------------------ windowed metrics: claims
\* The min(n, Len(h)) most recent elements of h, oldest first.
MostRecent(h, n) ==
    LET k == Min2(n, Len(h)) IN [i \in 1..k |-> h[Len(h) - k + i]]

\* C1: after any sequence of update calls the buffer of a windowed metric
\* holds at most max_window_size rows, and they are the most recently
\* inserted ones (all of them when fewer were inserted), in insertion order.
C1_WindowHoldsMostRecentRows ==
    \A w \in Workers :
        LET recent == MostRecent(inserted[w], max_window_size)
        IN IF metric_class \in SingleValueClasses
           THEN /\ Len(values[w]) <= max_window_size
                /\ values[w] = recent
           ELSE /\ Len(views1[w].rows) <= max_window_size
                /\ Len(views2[w].rows) <= max_window_size
                /\ views1[w].rows = [i \in 1..Len(recent) |-> Row1(recent[i])]
                /\ views2[w].rows = [i \in 1..Len(recent) |-> Row2(recent[i])]

\* A single update handed in more rows than the window holds, to a buffer that
\* already held rows: all earlier rows and the oldest new ones were evicted.
C1_Witness ==
    /\ last.op = "update"
    /\ last.rows > max_window_size
    /\ Len(inserted[last.self]) > last.rows
    /\ \/ Len(values[last.self]) = max_window_size
       \/ Len(views1[last.self].rows) = max_window_size

\* C2: after any interleaving of update and merge_state calls on a windowed
\* metric the number of buffered rows never exceeds max_window_size.
C2_BufferNeverExceedsWindow ==
    \A w \in Workers :
        /\ Len(values[w]) <= max_window_size
        /\ Len(views1[w].rows) <= max_window_size
        /\ Len(views2[w].rows) <= max_window_size

\* self ++ others[0] ++ others[1] ++ ..., built one buffer at a time.
ConcatAfter(self_vals, others_vals) ==
    LET Pieces[i \in 0..Len(others_vals)] ==
            IF i = 0 THEN self_vals ELSE Pieces[i - 1] \o others_vals[i]
    IN Pieces[Len(others_vals)]

\* The buffer of metric m when the last merge_state was called.
ValuesBefore(m) == IF m \in Workers THEN last.before[m] ELSE OtherValues(m)

\* C3: WindowedSingleValue.merge_state(others) leaves self.values equal to the
\* last max_window_size rows of self.values ++ others[0].values ++
\* others[1].values ++ ... (all of it when it is not longer), the others in the
\* order of the list, and leaves the buffers of the others unchanged.
C3_MergeKeepsLastRowsOfConcatenation ==
    (metric_class \in SingleValueClasses /\ last.op = "merge_state") =>
        LET others_vals == [i \in 1..Len(last.metrics) |->
                                ValuesBefore(last.metrics[i])]
            all == ConcatAfter(ValuesBefore(last.self), others_vals)
        IN /\ values[last.self] = MostRecent(all, max_window_size)
           /\ \A o \in Workers \ {last.self} : values[o] = last.before[o]

\* A merge with two other metrics whose concatenation was longer than the
\* window: the receiver had a row of its own, the list named the second of the
\* other metrics before the first, and the result ends with the row of the
\* second followed by the row of the first.
C3_Witness ==
    /\ metric_class \in SingleValueClasses
    /\ last.op = "merge_state"
    /\ last.metrics = <<NumWorkers + 2, NumWorkers + 1>>
    /\ last.before[last.self] # <<>>
    /\ last.rows > max_window_size
    /\ max_window_size >= 2
    /\ Len(values[last.self]) = max_window_size
    /\ values[last.self][max_window_size - 1] = OtherValues(NumWorkers + 2)[1]
    /\ values[last.self][max_window_size] = OtherValues(NumWorkers + 1)[1]

\* C4: compute() on a windowed metric whose buffer is empty returns NaN and
\* does not raise, for WindowedMean, WindowedMax and WindowedCCAMetric.
C4_ComputeOnEmptyBufferIsNaN ==
    (/\ last.op = "compute"
     /\ IF metric_class \in SingleValueClasses
        THEN values[last.self] = <<>>
        ELSE views1[last.self].rows = <<>>)
    => last.result.kind = "nan"

\* --------------------------------------------- count-based metrics: claims
\* compute() of metric m.
CountCompute(m) ==
    IF count_class = "PositivesMaskPercentage"
    THEN PositivesMaskPercentage_compute(pmp[m])
    ELSE MeanLossMetric_compute(mean_loss[m])

\* C5: for the count-based metrics, merging the states of independently
\* updated workers gives the compute() result of one metric that received all
\* the updates (hence the same result whichever worker absorbs the others,
\* in whatever order).
C5_MergeEqualsSingleMetric ==
    absorber # 0 => CountCompute(absorber) = CountCompute(Single)

\* --------------------------------------------- retrieval evaluation: claims
\* The first n documents of the test split that have a non-empty label.
Labelled(n) == {i \in 1..n : docs[i].label # <<>>}

NoNaN(s) == \A j \in DOMAIN s : s[j] # NaNFrac

\* C6: RetrievalEval aggregates exactly the documents whose label set is
\* non-empty: no pair comes from a document with an empty label, the number
\* of queries averaged into mean_reciprocal_rank and into each hit rate is
\* the number of documents with a non-empty label, no hit fraction is a
\* division by zero, and the only division by zero there can be is that by
\* the number of documents with a non-empty label.
C6_OnlyLabelledDocumentsAggregated ==
    /\ total_queries = Cardinality(Labelled(pos))
    /\ yielded # NoPair => yielded.true_ids # <<>>
    /\ \A t \in DOMAIN hit_percentages :
           /\ Len(hit_percentages[t]) = Cardinality(Labelled(pos))
           /\ NoNaN(hit_percentages[t])
    /\ results.kind # "none" =>
           (results.kind = "ok" <=> Labelled(Len(docs)) # {})
    /\ results.kind = "ok" =>
           /\ results.mean_reciprocal_rank =
                  FracDivInt(reciprocal_rank, Cardinality(Labelled(Len(docs))))
           /\ \A t \in DOMAIN hits_thresholds :
                  results.hit_rate_at[t] =
                      FracDivInt(FracSum(hit_percentages[t]),
                                 Cardinality(Labelled(Len(docs))))

\* An evaluation that returned for a split with labelled and unlabelled
\* documents.
C6_Witness ==
    /\ results.kind = "ok"
    /\ Labelled(Len(docs)) # {}
    /\ Labelled(Len(docs)) # 1..Len(docs)

DocOf(id) == CHOOSE i \in 1..Len(docs) : docs[i].id = id

NoSharedEmbedding ==
    \A i \in 1..Len(docs) : \A j \in 1..Len(docs) :
        i # j => ~SameNormalized(docs[i].emb, docs[j].emb)

\* C7: when no two documents have the same unit-normalised embedding, the
\* first retrieved neighbour of every query is the query document itself, so
\* pred_ids never contains the query's own id and holds the k nearest other
\* documents in rank order.
C7_QueryFirstAndDropped ==
    (yielded # NoPair /\ NoSharedEmbedding) =>
        LET q == docs[DocOf(yielded.query)].emb
            pred == yielded.pred_ids
            E(id) == docs[DocOf(id)].emb
            others == {docs[i].id : i \in 1..Len(docs)} \ {yielded.query}
        IN /\ yielded.nearest[1] = yielded.query
           /\ yielded.query \notin Range(pred)
           /\ Len(pred) = Min2(top_k, Len(docs) - 1)
           /\ Range(pred) \subseteq others
           /\ Cardinality(Range(pred)) = Len(pred)
           /\ \A i \in DOMAIN pred : \A j \in DOMAIN pred :
                  i < j => SimLeq(q, E(pred[j]), E(pred[i]))
           /\ \A id \in others \ Range(pred) : \A i \in DOMAIN pred :
                  SimLeq(q, E(id), E(pred[i]))

\* A query of a split without shared embeddings, with fewer predictions
\* asked for than there are other documents.
C7_Witness ==
    /\ yielded # NoPair
    /\ NoSharedEmbedding
    /\ Len(yielded.pred_ids) >= 1
    /\ Len(yielded.pred_ids) < Len(docs) - 1

\* ------------------------------------------- _evaluate_ir_metrics: claims
\* The indexes (from 0) of the predictions of a pair that are in its true ids.
HitIndexes(pair) ==
    {i \in 0..(Len(pair.pred_ids) - 1) :
         \E j \in DOMAIN pair.true_ids : pair.true_ids[j] = pair.pred_ids[i + 1]}

SetMin(S) == CHOOSE x \in S : \A y \in S : x <= y

FirstHit(pair) ==
    IF HitIndexes(pair) = {} THEN Len(pair.pred_ids) ELSE SetMin(HitIndexes(pair))

ExpectedReciprocalRank(pair) ==
    IF FirstHit(pair) = 0 THEN <<1, 1>> ELSE <<1, FirstHit(pair)>>

\* C8: the reciprocal rank of a query is 1/f, f the smallest index of a
\* prediction in true_ids, f = len(pred_ids) when there is none, and it is 1
\* when f = 0; mean_reciprocal_rank is their sum over the number of queries.
C8_ReciprocalRank ==
    /\ total_queries = Len(queries)
    /\ reciprocal_rank =
           FracSum([q \in DOMAIN queries |-> ExpectedReciprocalRank(queries[q])])
    /\ results.kind = "ok" =>
           results.mean_reciprocal_rank =
               FracDivInt(
                   FracSum([q \in DOMAIN queries |->
                                ExpectedReciprocalRank(queries[q])]),
                   Len(queries))

\* Returned results over a query whose first prediction is correct and a
\* query of at least two predictions, none of them correct.
C8_Witness ==
    /\ results.kind = "ok"
    /\ \E a \in DOMAIN queries : \E b \in DOMAIN queries :
           /\ HitIndexes(queries[a]) # {} /\ FirstHit(queries[a]) = 0
           /\ HitIndexes(queries[b]) = {} /\ Len(queries[b].pred_ids) >= 2

ExpectedHitFraction(pair, t) ==
    Frac(Cardinality({i \in HitIndexes(pair) : i < t}), Len(pair.true_ids))

\* C9: for each threshold t the hit fraction of a query is the number of
\* indexes i < t with pred_ids[i] in true_ids over len(true_ids), and
\* hit_rate_at_t is the mean of the fractions; true_ids = {1,2,3} with
\* pred_ids = [2,5,1,9] gives 1/3 at t = 2 and 2/3 at t = 3.
C9_HitRate ==
    /\ \A t \in DOMAIN hits_thresholds :
           /\ hit_percentages[t] =
                  [q \in DOMAIN queries |->
                       ExpectedHitFraction(queries[q], hits_thresholds[t])]
           /\ results.kind = "ok" =>
                  results.hit_rate_at[t] =
                      FracDivInt(
                          FracSum([q \in DOMAIN queries |->
                                       ExpectedHitFraction(queries[q],
                                                           hits_thresholds[t])]),
                          Len(queries))
    /\ (queries = <<ExamplePair>> /\ hits_thresholds = <<2, 3>>
            /\ results.kind = "ok") =>
           results.hit_rate_at = <<(<<1, 3>>), (<<2, 3>>)>>

\* The results for the pair true_ids = {1,2,3}, pred_ids = [2,5,1,9].
C9_Witness ==
    /\ queries = <<ExamplePair>>
    /\ hits_thresholds = <<2, 3>>
    /\ results.kind = "ok"

\* The sum of i / len(pred_ids) over the correct predictions i of a pair.
RECURSIVE PercentileSum(_, _)
PercentileSum(pair, hits) ==
    IF hits = {} THEN <<0, 1>>
    ELSE LET i == SetMin(hits)
         IN FracAdd(Frac(i, Len(pair.pred_ids)),
                    PercentileSum(pair, hits \ {i}))

PooledSum ==
    FracSum([q \in DOMAIN queries |->
                 PercentileSum(queries[q], HitIndexes(queries[q]))])

PooledCount ==
    SumSeq([q \in DOMAIN queries |-> Cardinality(HitIndexes(queries[q]))])

\* C10: mean_percentile_rank is the mean of index / max_rank pooled over
\* every correct prediction of every query (not the mean of the queries'
\* averages).
C10_PooledPercentileRank ==
    /\ Len(percentile_ranks) = PooledCount
    /\ FracSum(percentile_ranks) = PooledSum
    /\ results.kind = "ok" =>
           results.mean_percentile_rank =
               IF PooledCount = 0 THEN NaNFrac
               ELSE FracDivInt(PooledSum, PooledCount)

QueryAverage(pair) ==
    FracDivInt(PercentileSum(pair, HitIndexes(pair)),
               Cardinality(HitIndexes(pair)))

\* Returned results over two queries with correct predictions for which the
\* pooled mean differs from the mean of the two queries' averages.
C10_Witness ==
    /\ results.kind = "ok"
    /\ Len(queries) = 2
    /\ HitIndexes(queries[1]) # {}
    /\ HitIndexes(queries[2]) # {}
    /\ results.mean_percentile_rank #
           FracDivInt(FracAdd(QueryAverage(queries[1]),
                              QueryAverage(queries[2])), 2)

\* C11: retrieval evaluation over a split with degenerate content (no
\* labelled document, or no correct prediction for any query) returns a
\* mapping, with NaN for the metrics that are undefined; it never raises.
C11_DegenerateSplitReturnsNaN ==
    /\ results.kind \in {"none", "ok"}
    /\ (results.kind = "ok" /\ percentile_ranks = <<>>) =>
           results.mean_percentile_rank = NaNFrac

\* ------------------------------------------ StaticContextualLoss: claims
ContextualKeys == {"contextual_mask", "contextual_loss", "contextual_aux"}
StaticKeys == {"static_loss", "static_aux", "aux"}

\* C12: in every configuration outputs["loss"] is the sum of the reported
\* terms of the configured sub-losses; with both absent it is 0 and "loss" is
\* the only key; no key of a sub-loss that is not configured appears.
C12_LossIsSumOfConfiguredTerms ==
    scl_out.kind # "none" =>
        /\ scl_out.kind = "ok"
        /\ "loss" \in scl_out.keys
        /\ scl_out.loss =
               FracAdd(IF scl.contextual THEN scl_out.contextual_loss ELSE Zero,
                       IF scl.static THEN scl_out.static_loss ELSE Zero)
        /\ ~scl.contextual => scl_out.keys \cap ContextualKeys = {}
        /\ ~scl.static => scl_out.keys \cap StaticKeys = {}
        /\ (~scl.contextual /\ ~scl.static) =>
               (scl_out.loss = Zero /\ scl_out.keys = {"loss"})

\* No length mask is configured: no maximal length, or no length key.
NoLengthMask == scl.contextual_max_length = None \/ scl.len_key = None

\* C13: the contextual loss keeps exactly the rows with length <= threshold
\* (a row of length equal to the threshold is kept), and every row when no
\* threshold is configured, in both implementations.
C13_MaskKeepsLengthAtMostThreshold ==
    (scl_out.kind # "none" /\ scl.contextual) =>
        \A i \in DOMAIN scl_in :
            (scl_out.mask[i] = 1) <=>
                (NoLengthMask
                     \/ scl_in[i].length <= scl.contextual_max_length[1])

\* C14: the contextual term is the sub-loss value divided by the number of
\* unmasked rows (not divided when no row is unmasked) and then multiplied
\* by lam when lam is configured.
C14_ContextualTermNormalisedByUnmaskedRows ==
    (scl_out.kind # "none" /\ scl.contextual) =>
        LET sub == ContextualSubLoss(scl_in, scl_out.mask)
            unmasked == MaskSum(scl_out.mask)
            normed == IF unmasked > 0 THEN FracDivInt(sub, unmasked) ELSE sub
        IN scl_out.contextual_loss =
               IF scl.lam # None THEN FracMul(normed, scl.lam[1]) ELSE normed

\* ------------------------------------------- running estimators: claims
RECURSIVE FracPow(_, _)
FracPow(x, t) == IF t = 0 THEN One ELSE FracMul(FracPow(x, t - 1), x)

\* C15: after t >= 1 forward calls of RunningCCALoss the decay powers are
\* beta_mu^t and beta_sigma^t; the means and covariances used in a call are
\* accumulator / (1 - decay power) of the accumulators already updated in
\* that call; the batch is centred by the bias-corrected running means.
C15_BiasCorrectedRunningStatistics ==
    [][(run_class = "RunningCCALoss" /\ calls' = calls + 1) =>
           LET mu_power == FracPow(run.beta_mu, calls')
               sigma_power == FracPow(run.beta_sigma, calls')
               mu1 == BiasCorrected(run'.mu1, mu_power)
               mu2 == BiasCorrected(run'.mu2, mu_power)
               view1_bar == Centre(View1(run_batch'), mu1)
               view2_bar == Centre(View2(run_batch'), mu2)
           IN /\ run'.beta_mu_power = mu_power
              /\ run'.beta_sigma_power = sigma_power
              /\ run'.mu1 = RunningCCALoss_running_update(
                                run.beta_mu, run.mu1,
                                ViewMean(View1(run_batch')))
              /\ run'.mu2 = RunningCCALoss_running_update(
                                run.beta_mu, run.mu2,
                                ViewMean(View2(run_batch')))
              /\ run_out'.means = <<mu1, mu2>>
              /\ run'.sigma = RunningCCALoss_running_update(
                                  run.beta_sigma, run.sigma,
                                  CCALoss_covariance(view1_bar, view2_bar, FALSE))
              /\ run'.sigma1 = RunningCCALoss_running_update(
                                   run.beta_sigma, run.sigma1,
                                   CCALoss_covariance(view1_bar, view1_bar, FALSE))
              /\ run'.sigma2 = RunningCCALoss_running_update(
                                   run.beta_sigma, run.sigma2,
                                   CCALoss_covariance(view2_bar, view2_bar, FALSE))
              /\ run_out'.triple =
                     <<BiasCorrected(run'.sigma, sigma_power),
                       BiasCorrected(run'.sigma1, sigma_power),
                       BiasCorrected(run'.sigma2, sigma_power)>>]_vars

\* A second call whose batch was centred by a running mean that is not the
\* mean of the batch.
C15_Witness ==
    /\ run_class = "RunningCCALoss"
    /\ calls = 2
    /\ run.beta_mu # Zero
    /\ run.beta_sigma # Zero
    /\ run_out.means[1] # ViewMean(View1(run_batch))
    /\ run_out.triple[1] # Zero

\* C16: with beta_mu = beta_sigma = 0 the means and the covariance triple
\* that RunningCCALoss produces in a call are the means of the batch and
\* the triple that CCALoss computes for the same batch.
C16_NoMemoryEqualsExactBatch ==
    (run_class = "RunningCCALoss" /\ calls >= 1
         /\ run.beta_mu = Zero /\ run.beta_sigma = Zero) =>
        /\ run_out.means = <<ViewMean(View1(run_batch)),
                             ViewMean(View2(run_batch))>>
        /\ run_out.triple = CCALoss_compute_covariance_matrices(run_batch)

\* C17: an instance restored from state_dict() of a running estimator
\* produces the same output as the uninterrupted estimator on every later
\* batch.
C17_RestoredInstanceContinues ==
    (resumed # <<>> /\ resumed_out.kind # "none") => resumed_out = run_out

\* C18: 'covariance_mat' and 'sigma2' of the output of RunningCCALoss are the
\* bias-corrected covariances that the loss of the call was computed from.
C18_ExposedCovariancesBiasCorrected ==
    (run_class = "RunningCCALoss" /\ calls >= 1) =>
        /\ run_out.covariance_mat = run_out.triple[1]
        /\ run_out.sigma2 = run_out.triple[3]

\* --------------------------------------------------- CCA failures: claims
\* C19: CCALoss.forward with output_dimension set reports NaN, and does not
\* raise, when the number of samples or the dimension of a view is smaller
\* than the output dimension.
C19_TooFewSamplesReportsNaN ==
    (cca_call.result.kind # "none" /\ cca_call.output_dim # None
         /\ Min2(cca_call.samples, Min2(cca_call.view1_dim, cca_call.view2_dim))
                < cca_call.output_dim[1]) =>
        cca_call.result = NaN

\* The buffers of worker w pass the guard of compute() and the validation of
\* the input of the fit: the fit is attempted.
FitAttempted(w) ==
    /\ views1[w].ndim = 2
    /\ views2[w].ndim = 2
    /\ n_components <= Min2(Min2(views1[w].ncols, views2[w].ncols),
                            Len(views1[w].rows))
    /\ Len(views1[w].rows) >= 2
    /\ Len(views1[w].rows) = Len(views2[w].rows)

\* C20: when the CCA fit inside WindowedCCAMetric.compute fails with a
\* LinAlgError, compute returns NaN without raising and leaves views1 and
\* views2 as they were.
C20_FitFailureReportsNaN ==
    [][\A w \in Workers :
           (FitAttempted(w) /\ CCACompute(w, FALSE)) =>
               /\ last'.result = NaN
               /\ views1' = views1
               /\ views2' = views2]_vars

\* compute() returned NaN on buffers that pass the guard: the fit failed.
C20_Witness ==
    /\ metric_class = "WindowedCCAMetric"
    /\ last.op = "compute"
    /\ last.result = NaN
    /\ FitAttempted(last.self)

\* ------------------------------------------------ mismatched views: claims
\* C21: WindowedCCAMetric.update with views of different row counts raises
\* and modifies neither buffer, so that views1 and views2 always hold the
\* same number of rows.
C21_ViewsStayRowAligned ==
    metric_class = "WindowedCCAMetric" =>
        \A w \in Workers : Len(views1[w].rows) = Len(views2[w].rows)

\* ---------------------------------------------- CCALoss numerics: claims
\* The sum of the singular values of A, the square roots of the eigenvalues
\* e1, e2 of A.T @ A: e1 + e2 is its trace and e1 * e2 its determinant.
SingularValueSum(A) ==
    [sum |-> Gram(A)[1][1] + Gram(A)[2][2],
     prod |-> Gram(A)[1][1] * Gram(A)[2][2] - Gram(A)[1][2] * Gram(A)[2][1]]

\* C22: with no output dimension CCALoss.forward returns loss = -corr with
\* corr the sum of the singular values of A.
C22_LossIsSumOfSingularValues ==
    "A" \in DOMAIN cca_call =>
        cca_call.corr = SingularValueSum(cca_call.A)

\* x <= y
FracLeq(x, y) == ~FracLess(y, x)

\* Eigenpair j of a view was removed before whitening.
Removed(D, j) == j \in DOMAIN D /\ FracLeq(D[j], cca_call.eps)

\* C23: eigenpairs of sigma1 and sigma2 with eigenvalue <= epsilon are
\* removed before whitening (they contribute nothing to A.T @ A); in the
\* fixed-output-dimension branch an eigenvalue of A.T @ A + lambda * I that
\* is <= epsilon is replaced by epsilon and none is removed, so view2's
\* dimension many are offered to the selection; the loss is made of the d
\* largest of them.
C23_SmallEigenvaluesRemovedThenClamped ==
    "offered" \in DOMAIN cca_call =>
        LET c == cca_call
            d == c.output_dim
            Above(v) == Cardinality({j \in DOMAIN c.offered :
                                         FracLess(v, c.offered[j])})
            AtLeast(v) == Cardinality({j \in DOMAIN c.offered :
                                           FracLeq(v, c.offered[j])})
        IN /\ \A i \in DOMAIN c.D1 : i \in c.kept1 <=> ~Removed(c.D1, i)
           /\ \A i \in DOMAIN c.D2 : i \in c.kept2 <=> ~Removed(c.D2, i)
           /\ \A j \in DOMAIN c.D2 :
                  (Removed(c.D1, j) \/ Removed(c.D2, j) \/ j \notin DOMAIN c.D1)
                      => c.eigenvalues[j] = RegConstant
           /\ Len(c.offered) = Len(c.D2)
           /\ \A j \in DOMAIN c.offered :
                  c.offered[j] = IF FracLeq(c.eigenvalues[j], c.eps)
                                 THEN c.eps ELSE c.eigenvalues[j]
           /\ c.kind = "ok" <=> d <= Len(c.D2)
           /\ c.kind = "ok" =>
                  /\ Len(c.terms) = d
                  /\ \A k \in 1..d :
                         Above(c.terms[k]) <= k - 1 /\ AtLeast(c.terms[k]) >= k

\* An eigenpair was removed, an eigenvalue was replaced by epsilon and one
\* was not, and the selection took fewer than were offered.
C23_Witness ==
    /\ "offered" \in DOMAIN cca_call
    /\ cca_call.kind = "ok"
    /\ cca_call.kept1 # DOMAIN cca_call.D1
    /\ cca_call.output_dim < Len(cca_call.offered)
    /\ \E j \in DOMAIN cca_call.offered :
           cca_call.offered[j] # cca_call.eigenvalues[j]
    /\ \E j \in DOMAIN cca_call.offered :
           FracLess(cca_call.eps, cca_call.eigenvalues[j])

\* ----------------------------------------------- accessor metrics: claims
\* C24: merge_state on an accessor-wrapped metric called with other
\* accessor-wrapped metrics succeeds and leaves the inner metric in the
\* state that inner.merge_state gives from the others' inner metrics.
C24_AccessorMergeIsInnerMerge ==
    [][\A w \in Workers : \A others \in AllOthers(w) \cup {<<>>} :
           AccMergeState(w, others) =>
               /\ merged' = "ok"
               /\ pmp'[w] = PositivesMaskPercentage_merge_state(
                                pmp[w],
                                [i \in 1..Len(others) |-> pmp[others[i]]])]_vars

\* ------------------------------------------- IR metrics: order and bounds
\* What the query `pair` adds to reciprocal_rank.
Contribution(pair) ==
    QueryStep(EmptyAcc(hits_thresholds), pair.true_ids, pair.pred_ids,
              hits_thresholds).reciprocal_rank

\* C25: the reciprocal rank of a query is strictly decreasing in the index
\* of its first correct prediction, and a query with no correct prediction
\* contributes strictly less than any query with one.
C25_ReciprocalRankStrictlyDecreasing ==
    \A a \in DOMAIN queries : \A b \in DOMAIN queries :
        /\ (HitIndexes(queries[a]) # {} /\ HitIndexes(queries[b]) # {}
                /\ FirstHit(queries[a]) < FirstHit(queries[b]))
               => FracLess(Contribution(queries[b]), Contribution(queries[a]))
        /\ (HitIndexes(queries[a]) = {} /\ HitIndexes(queries[b]) # {})
               => FracLess(Contribution(queries[a]), Contribution(queries[b]))

\* 0 <= x <= 1 for a fraction x (NaN is not)
InUnitInterval(x) == x[2] > 0 /\ 0 <= x[1] /\ x[1] <= x[2]

\* C26: for pred_ids without duplicates every per-query hit fraction and
\* every reported hit rate lies in [0, 1], every percentile rank lies in
\* [0, 1), and the hit rate does not decrease with the threshold.
C26_HitRatesAndRanksBounded ==
    /\ \A t \in DOMAIN hit_percentages :
           \A q \in DOMAIN hit_percentages[t] :
               InUnitInterval(hit_percentages[t][q])
    /\ \A r \in DOMAIN percentile_ranks :
           /\ percentile_ranks[r][2] > 0
           /\ 0 <= percentile_ranks[r][1]
           /\ percentile_ranks[r][1] < percentile_ranks[r][2]
    /\ results.kind = "ok" =>
           \A t1 \in DOMAIN hits_thresholds :
               /\ InUnitInterval(results.hit_rate_at[t1])
               /\ \A t2 \in DOMAIN hits_thresholds :
                      hits_thresholds[t1] <= hits_thresholds[t2] =>
                          FracLeq(results.hit_rate_at[t1],
                                  results.hit_rate_at[t2])

\* Two queries were evaluated, the hit rate grows with the threshold and is
\* neither 0 nor 1 at the larger one, and a correct prediction was found
\* past the first place.
C26_Witness ==
    /\ results.kind = "ok"
    /\ Len(queries) = 2
    /\ FracLess(results.hit_rate_at[1], results.hit_rate_at[2])
    /\ FracLess(results.hit_rate_at[2], One)
    /\ \E r \in DOMAIN percentile_ranks : percentile_ranks[r][1] > 0

\* The exact statistics of a batch: its means and its covariances sigma,
\* sigma1, sigma2 without regularization.
BatchMeans(batch) == <<ViewMean(View1(batch)), ViewMean(View2(batch))>>

BatchCovariances(batch) ==
    LET view1_bar == Centre(View1(batch), ViewMean(View1(batch)))
        view2_bar == Centre(View2(batch), ViewMean(View2(batch)))
    IN <<CCALoss_covariance(view1_bar, view2_bar, FALSE),
         CCALoss_covariance(view1_bar, view1_bar, FALSE),
         CCALoss_covariance(view2_bar, view2_bar, FALSE)>>

\* A forward call of RunningCCALoss on the batch that every call before it
\* was made on.
SameBatchStep ==
    /\ run_class = "RunningCCALoss"
    /\ calls' = calls + 1
    /\ calls <= 1
    /\ calls = 1 => run_batch' = run_batch

\* C27: when the same batch is fed to RunningCCALoss at every step, the
\* bias-corrected means and the bias-corrected covariances sigma, sigma1 and
\* sigma2 are that batch's means and unregularized covariances at every
\* step.
C27_SameBatchGivesExactStatistics ==
    [][SameBatchStep =>
           /\ run_out'.means = BatchMeans(run_batch')
           /\ run_out'.triple = BatchCovariances(run_batch')]_vars

\* What does hold: the means and the cross-covariance sigma, whose
\* accumulators start at zero.
C27_ZeroInitialisedExact ==
    [][SameBatchStep =>
           /\ run_out'.means = BatchMeans(run_batch')
           /\ run_out'.triple[1] = BatchCovariances(run_batch')[1]]_vars

\* ------------------------------------------ training callbacks: claims
\* Score a is strictly better than score b for the callback.
StrictlyBetter(self, a, b) ==
    IF self.higher_is_better THEN FloatLess(b, a) ELSE FloatLess(a, b)

\* The evaluations happened exactly on the calls whose number is a multiple
\* of eval_every.
EvaluatedOnMultiples ==
    {evaluated[i].call : i \in DOMAIN evaluated} =
        {n \in 1..epoch_ends : n % ev[1].eval_every = 0}

\* An evaluation saved the model exactly when its score was strictly better
\* than every score evaluated before it.
SavedExactlyWhenBetter ==
    \A i \in DOMAIN evaluated :
        evaluated[i].saved <=>
            \A j \in 1..(i - 1) :
                StrictlyBetter(ev[1], evaluated[i].score, evaluated[j].score)

\* Once there was an evaluation, the model at save_best_path is one whose
\* score no evaluated score is strictly better than, and _best_score is
\* that score.
SavedModelIsBest ==
    evaluated # <<>> =>
        /\ best_saved # None
        /\ best_saved[1].score = ev[1].best_score
        /\ \A j \in DOMAIN evaluated :
               ~StrictlyBetter(ev[1], evaluated[j].score, best_saved[1].score)

\* C28: EvaluateIRMetrics evaluates exactly on the calls whose 1-based
\* number is a multiple of eval_every, and with save_best_path set it saves
\* the model exactly when the decisive metric is strictly better than every
\* previously evaluated score, so that the saved model is always the one
\* with the best score seen so far.
C28_SavesExactlyOnStrictImprovement ==
    ev # None =>
        /\ EvaluatedOnMultiples
        /\ ev[1].save_best_path # None =>
               SavedExactlyWhenBetter /\ SavedModelIsBest

\* What does hold: the same as long as no evaluated score is NaN.
C28_HoldsWithoutNaN ==
    (\A i \in DOMAIN evaluated : evaluated[i].score # NaNFrac) =>
        C28_SavesExactlyOnStrictImprovement

\* What does hold: the calls evaluated on, and _best_score never gets worse.
C28_EvaluationTimes == ev # None => EvaluatedOnMultiples

C28_BestScoreOnlyImproves ==
    [][ev # None =>
           \/ ev'[1].best_score = ev[1].best_score
           \/ StrictlyBetter(ev[1], ev'[1].best_score, ev[1].best_score)]_vars

\* The epochs of the first k modules.
RECURSIVE SumEpochs(_, _)
SumEpochs(module_epochs, k) ==
    IF k = 0 THEN 0 ELSE SumEpochs(module_epochs, k - 1) + module_epochs[k]

\* C29: whenever CheckpointSave writes the checkpoint named after_epoch_e,
\* exactly e epochs of the module being trained have completed, and each
\* epoch number is written at most once during ParagraphVectorEmbed.train.
C29_CheckpointNamedAfterCompletedEpochs ==
    /\ \A i \in DOMAIN written : written[i].completed = written[i].after_epoch
    /\ \A i, j \in DOMAIN written :
           written[i].after_epoch = written[j].after_epoch => i = j

\* What does hold: no checkpoint is written twice, and after_epoch_e is
\* written by the (e + 1)-th on_epoch_end call of the whole train().
C29_WrittenOnceAfterOneMoreCall ==
    /\ \A i, j \in DOMAIN written :
           written[i].after_epoch = written[j].after_epoch => i = j
    /\ \A i \in DOMAIN written :
           written[i].after_epoch + 1 =
               written[i].completed
                   + SumEpochs(training.module_epochs, written[i].module - 1)

\* ------------------------------------------------------- HFTask: claims
\* The rows as retrieved: where each row of a split comes from.
Origins(split) ==
    AsSeq([i \in DOMAIN split |-> <<split[i].split, split[i].index>>])

\* _create_splits made the validation split out of the source split.
ValidationMade ==
    /\ splits.kind = "ok"
    /\ MakesValidation(task, retrieved)

SourceName == task.validation_source[1]

SourceLen == Len(retrieved.rows[SourceName])

\* The rows of the validation split followed by those of the source split.
ValidationAndSource ==
    Origins(splits.rows["validation"]) \o Origins(splits.rows[SourceName])

NoRowTwice(origins) ==
    \A i, j \in DOMAIN origins : origins[i] = origins[j] => i = j

\* With add_ids no two rows of the splits have the same id.
IdsUnique ==
    (splits.kind = "ok" /\ task.add_ids) =>
        \A n1, n2 \in Range(splits.names) :
            \A i \in DOMAIN splits.rows[n1], j \in DOMAIN splits.rows[n2] :
                splits.rows[n1][i].id = splits.rows[n2][j].id =>
                    n1 = n2 /\ i = j

\* C30: when _create_splits makes the validation split, it and the remaining
\* source split are disjoint, together hold every row of the original source
\* split exactly once, and the validation split has floor(n * fraction)
\* rows; when a validation split exists already no split is changed; with
\* add_ids every id is unique across the splits.
C30_ValidationSplitPartitionsSource ==
    /\ ValidationMade =>
           /\ NoRowTwice(ValidationAndSource)
           /\ Range(ValidationAndSource) =
                  Range(Origins(retrieved.rows[SourceName]))
           /\ Len(splits.rows["validation"]) =
                  FloorOfProduct(SourceLen, task.validation_fraction[1])
    /\ (splits.kind = "ok" /\ "validation" \in Range(retrieved.names)) =>
           /\ splits.names = retrieved.names
           /\ \A name \in Range(retrieved.names) :
                  Origins(splits.rows[name]) = Origins(retrieved.rows[name])
    /\ IdsUnique

\* The limit that _shorten_splits applies to a split, if any.
AppliedLimit(name) ==
    IF task.data_size_limit = None THEN None
    ELSE LimitOf(task.data_size_limit.dict, name)

\* The first min(limit, Len(s)) elements of s.
Shortened(s, limit) ==
    IF limit # None /\ Len(s) > limit[1] THEN SubSeq(s, 1, limit[1]) ELSE s

\* C30, amended: the validation split and the remaining source split are
\* disjoint and hold rows of the original source split, none twice; before
\* data_size_limit shortens them they hold every row of the source exactly
\* once and the validation split has floor(n * fraction) rows, and each is
\* then cut to its first `limit` rows; when a validation split exists
\* already the splits are the retrieved ones, shortened; with add_ids every
\* id is unique across the splits.
C30_ValidationSplitPartitionsThenShortened ==
    /\ ValidationMade =>
           /\ NoRowTwice(ValidationAndSource)
           /\ Range(ValidationAndSource) \subseteq
                  Range(Origins(retrieved.rows[SourceName]))
           /\ Len(splits.rows["validation"]) =
                  LET val_len ==
                          FloorOfProduct(SourceLen, task.validation_fraction[1])
                      limit == AppliedLimit("validation")
                  IN IF limit # None /\ val_len > limit[1]
                     THEN limit[1] ELSE val_len
           /\ Len(splits.rows[SourceName]) =
                  LET rest ==
                          SourceLen - FloorOfProduct(
                                          SourceLen, task.validation_fraction[1])
                      limit == AppliedLimit(SourceName)
                  IN IF limit # None /\ rest > limit[1]
                     THEN limit[1] ELSE rest
    /\ (splits.kind = "ok" /\ "validation" \in Range(retrieved.names)) =>
           /\ splits.names = retrieved.names
           /\ \A name \in Range(retrieved.names) :
                  Origins(splits.rows[name]) =
                      Shortened(Origins(retrieved.rows[name]),
                                AppliedLimit(name))
    /\ IdsUnique

\* A source split of three rows was divided into a validation split of one
\* row and a rest of two, nothing was shortened and the ids were added.
C30_Witness ==
    /\ ValidationMade
    /\ task.add_ids
    /\ task.data_size_limit = None
    /\ SourceLen = 3
    /\ Len(splits.rows["validation"]) = 1
    /\ Len(splits.rows[SourceName]) = 2
    /\ splits.rows["validation"][1].index # 0

\* A limit cut the validation split that was made.
C30_WitnessShortened ==
    /\ ValidationMade
    /\ FloorOfProduct(SourceLen, task.validation_fraction[1]) = 2
    /\ Len(splits.rows["validation"]) = 1

====
